---- MODULE Spec2Model ----
(***************************************************************************)
(* Model of enhanced_ai_provider.MultiAIProvider: construction from the    *)
(* environment (_initialize_providers, _select_primary_provider) and the   *)
(* chat_completion coroutine with its single fallback.  One step of the    *)
(* model is one run of the coroutine between two awaits.                  *)
(***************************************************************************)
EXTENDS Integers, Sequences, FiniteSets, TLC

VARIABLES
    env,               \* os.environ: variable name -> value, None when unset
    obj,               \* "new" | "ready" | "ValueError": outcome of __init__
    providers,         \* self.providers, an insertion-ordered dict: <<[provider, config]>>
    current_provider,  \* self.current_provider (None until selected)
    pc,                \* position of the chat_completion coroutine
    messages,          \* argument of the running invocation
    kwargs,            \* keyword arguments of the running invocation
    calls,             \* HTTP requests posted by the running invocation, in order
    log,               \* logger records written by the running invocation
    replies,           \* what the network answered to each of those requests, in order
    primary_error,     \* the exception e bound in the outer except clause
    outcome,           \* what the invocation gave its caller: return value or exception
    inv,               \* the invocations running concurrently on the object, by task
    \* subscription_tiers.SubscriptionManager: the tables of its database
    users,             \* table users: username -> row
    usage_log,         \* table usage_log, in insertion order
    subscription_history, \* table subscription_history, in insertion order
    permission         \* the last call of can_execute_action / execute_action and its result

tiervars == <<users, usage_log, subscription_history, permission>>

VARIABLES
    \* unified_execution_orchestrator: the global orchestrator of the API
    user_subscription, \* subscription_manager.user_subscription
    user_credits,      \* subscription_manager.user_credits
    requests,          \* the process_user_request calls in flight, by task
    executed_cost      \* sum of the tier costs of the actions executed with success

orchvars == <<user_subscription, user_credits, requests, executed_cost>>

VARIABLES
    \* computer_control_integration.operate_computer_system
    command_call,      \* the arguments of the last call: command and user
    executed,          \* the handlers that call entered and what each ran, in order
    command_result     \* the dict that call returned

controlvars == <<command_call, executed, command_result>>

VARIABLES
    \* meeting_assistant.VoiceFallbackManager
    elevenlabs_available, \* self.elevenlabs_available
    openai_tts_available, \* self.openai_tts_available
    desktop_tts,       \* self.desktop_tts: is there an engine (TRUE) or None (FALSE)
    current_tts_mode,  \* self.current_tts_mode, None before __init__
    speak_call,        \* the last call of speak: its arguments and which backends work
    spoken,            \* the channels that call used, in order, each with its success
    speak_result       \* what that call returned

voicevars == <<elevenlabs_available, openai_tts_available, desktop_tts, current_tts_mode,
               speak_call, spoken, speak_result>>

VARIABLES
    \* MultiAIProvider.process_message and EnhancedPersonalAssistant
    current_persona,   \* self.current_persona
    message_call,      \* the last call of process_message: its argument
    message_result,    \* what that call returned and the requests it posted
    conversation_history, \* EnhancedPersonalAssistant.conversation_history
    assistant_result   \* the last call of process_command and what it returned

assistantvars == <<current_persona, message_call, message_result, conversation_history,
                   assistant_result>>

VARIABLES
    \* VPSOrchestrator of hybrid_orchestrator.py
    desktop_connections, \* the websockets of the server: state of the connection
                         \* and the desktop_id local of its handler
    connected_desktops,  \* self.connected_desktops, in the order of the dict
    pattern_storage,     \* self.pattern_storage, in the order of the dict
    claude_result        \* the last call of process_claude_request and its end

hybridvars == <<desktop_connections, connected_desktops, pattern_storage, claude_result>>

VARIABLES
    \* ProgressStore of progress_store.py
    progress_obj,      \* "new" before ProgressStore(), "ready" after
    new_connector,     \* self.new_connector
    old_connector,     \* self.old_connector
    memory_client,     \* self.memory_client
    progress_result    \* the last call of store_progress_report and its end

progressvars == <<progress_obj, new_connector, old_connector, memory_client,
                  progress_result>>

\* the state of the modules other than the provider part of enhanced_ai_provider
others == <<tiervars, orchvars, controlvars, voicevars, assistantvars, hybridvars,
            progressvars>>
vars == <<env, obj, providers, current_provider, pc, messages, kwargs, calls, log,
          replies, primary_error, outcome, inv, others>>

None == "None"
\* None in a place that otherwise holds a dict or an exception
NoneObj == [none |-> TRUE]

(* ------------------------------ bounds --------------------------------- *)
MaxMsgs == 2
NumTasks == 2
MaxTranslate == 3
MaxUsage == 1
MaxHistory == 2
NumRequests == 2
MaxActions == 1

(* --------------------------- AIProvider enum --------------------------- *)
ANTHROPIC == "anthropic"
OPENROUTER == "openrouter"
PERPLEXITY == "perplexity"
DEEPSEEK == "deepseek"
AIProvider == {ANTHROPIC, OPENROUTER, PERPLEXITY, DEEPSEEK}

\* the environment variable each provider's own key is read from
KeyVar(p) ==
    CASE p = ANTHROPIC -> "ANTHROPIC_API_KEY"
      [] p = OPENROUTER -> "OPENROUTER_API_KEY"
      [] p = PERPLEXITY -> "PERPLEXITY_API_KEY"
      [] p = DEEPSEEK -> "DEEPSEEK_API_KEY"

EnvVars == {KeyVar(p) : p \in AIProvider}

\* values an environment variable can have: unset, set to "", set to a key
EnvValues(v) == {None, "", "key:" \o v}

getenv(v) == env[v]

\* Python truthiness of the value os.getenv returns (None and "" are false)
\* a test for "is not None" in place of truthiness: "" passes
Truthy_notNone(x) == x # None

Truthy(x) == x # None /\ x # ""

AIProviderConfig(name, api_key, base_url, model, max_tokens) ==
    [name |-> name, api_key |-> api_key, base_url |-> base_url, model |-> model,
     max_tokens |-> max_tokens, available |-> TRUE]

(* ------------------------ _initialize_providers ------------------------ *)
AnthropicEntry ==
    IF Truthy(getenv("ANTHROPIC_API_KEY"))
    THEN << [provider |-> ANTHROPIC,
             config |-> AIProviderConfig("Anthropic Claude", getenv("ANTHROPIC_API_KEY"),
                          "https://api.anthropic.com/v1/messages",
                          "claude-3-sonnet-20240229", 4000)] >>
    ELSE << >>

OpenRouterEntry ==
    IF Truthy(getenv("OPENROUTER_API_KEY"))
    THEN << [provider |-> OPENROUTER,
             config |-> AIProviderConfig("OpenRouter", getenv("OPENROUTER_API_KEY"),
                          "https://openrouter.ai/api/v1/chat/completions",
                          "anthropic/claude-3-sonnet", 4000)] >>
    ELSE IF Truthy(getenv("ANTHROPIC_API_KEY"))
    THEN << [provider |-> OPENROUTER,
             config |-> AIProviderConfig("OpenRouter (Anthropic Key)",
                          getenv("ANTHROPIC_API_KEY"),
                          "https://openrouter.ai/api/v1/chat/completions",
                          "anthropic/claude-3-sonnet", 4000)] >>
    ELSE << >>

PerplexityEntry ==
    IF Truthy(getenv("PERPLEXITY_API_KEY"))
    THEN << [provider |-> PERPLEXITY,
             config |-> AIProviderConfig("Perplexity AI", getenv("PERPLEXITY_API_KEY"),
                          "https://api.perplexity.ai/chat/completions",
                          "pplx-70b-online", 4096)] >>
    ELSE << >>

DeepSeekEntry ==
    IF Truthy(getenv("DEEPSEEK_API_KEY"))
    THEN << [provider |-> DEEPSEEK,
             config |-> AIProviderConfig("DeepSeek", getenv("DEEPSEEK_API_KEY"),
                          "https://api.deepseek.com/v1/chat/completions",
                          "deepseek-chat", 4096)] >>
    ELSE << >>

_initialize_providers ==
    AnthropicEntry \o OpenRouterEntry \o PerplexityEntry \o DeepSeekEntry

\* list(d.keys()) and `p in d` of an insertion-ordered dict
Keys(d) == [i \in 1..Len(d) |-> d[i].provider]
KeySet(d) == {d[i].provider : i \in 1..Len(d)}
Lookup(d, p) == d[CHOOSE i \in 1..Len(d) : d[i].provider = p].config

(* ----------------------- _select_primary_provider ---------------------- *)
\* None stands for the ValueError raised when neither of the two is configured
_select_primary_provider(d) ==
    IF ANTHROPIC \in KeySet(d) THEN ANTHROPIC
    ELSE IF OPENROUTER \in KeySet(d) THEN OPENROUTER
    ELSE None

(* --------------------------- get_provider_status ----------------------- *)
\* a status that names Anthropic as primary whatever was selected
get_provider_status_hardcoded ==
    [primary_provider |-> ANTHROPIC,
     providers |-> [i \in 1..Len(providers) |->
                      [provider |-> providers[i].provider,
                       name |-> providers[i].config.name,
                       model |-> providers[i].config.model,
                       available |-> providers[i].config.available,
                       api_key_set |-> Truthy(providers[i].config.api_key)]]]

get_provider_status ==
    [primary_provider |-> current_provider,
     providers |-> [i \in 1..Len(providers) |->
                      [provider |-> providers[i].provider,
                       name |-> providers[i].config.name,
                       model |-> providers[i].config.model,
                       available |-> providers[i].config.available,
                       api_key_set |-> Truthy(providers[i].config.api_key)]]]

(* ------------------------------ inputs --------------------------------- *)
\* the messages a caller can pass: every list of at most MaxMsgs of these
Msg(role, content) == [role |-> role, content |-> content]
MsgSet == {Msg("system", "Be brief."), Msg("user", "Hi"), Msg("assistant", "Hello.")}
SeqsUpTo(S, n) == UNION {[1..k -> S] : k \in 0..n}
MessageLists == SeqsUpTo(MsgSet, MaxMsgs)

\* **kwargs: a temperature, or an option without a temperature
KwargsSet == { [temperature |-> "0.2"], [max_tokens |-> 100] }

(* ------------------------- the HTTP collaborator ----------------------- *)
\* what the network gives back to one session.post: the post itself raises
\* (exc), or a response with a status and a body text arrives
Statuses == {200, 201, 500}
Bodies == {"anthropic_ok", "openai_ok", "error_obj", "json_list", "not_json"}
Responses ==
    {[exc |-> "ClientConnectorError", status |-> 0, body |-> ""]}
    \cup [exc : {None}, status : Statuses, body : Bodies]

\* response.json(): the parsed body, or valid = FALSE when parsing raises
Json(body) ==
    CASE body = "anthropic_ok" ->
           [valid |-> TRUE, type |-> "dict",
            value |-> [content |-> << [type |-> "text", text |-> "Hello!"] >>,
                       usage |-> [input_tokens |-> 3, output_tokens |-> 2]]]
      [] body = "openai_ok" ->
           [valid |-> TRUE, type |-> "dict",
            value |-> [choices |-> << [message |-> [role |-> "assistant",
                                                    content |-> "Hello!"]] >>,
                       usage |-> [prompt_tokens |-> 3, completion_tokens |-> 2]]]
      [] body = "error_obj" ->
           [valid |-> TRUE, type |-> "dict", value |-> [error |-> "overloaded"]]
      [] body = "json_list" ->
           [valid |-> TRUE, type |-> "list", value |-> << >>]
      [] OTHER -> [valid |-> FALSE, type |-> None, value |-> None]

\* d[k] = v on a dict
SetItem(d, k, v) == [x \in DOMAIN d \cup {k} |-> IF x = k THEN v ELSE d[x]]

\* exceptions: the type, and the parts str(e) is made of
Exc(type, label, status, text) ==
    [type |-> type, label |-> label, status |-> status, text |-> text]
Str(e) == [label |-> e.label, status |-> e.status, text |-> e.text]
\* the value of primary_error while no exception is bound to e
NoExc == Exc(None, None, 0, "")

\* str(e) of an exception raised by the awaited post itself
ExcText(type) == IF type = "ClientConnectorError" THEN "Cannot connect to host" ELSE ""

Ok(v) == [ok |-> TRUE, value |-> v, error |-> None]
Raise(e) == [ok |-> FALSE, value |-> None, error |-> e]

(* ----------------------------- _call_anthropic ------------------------- *)
\* the loop over messages: the last system message's content, and the rest
SystemMessage(msgs) ==
    LET idx == {i \in 1..Len(msgs) : msgs[i].role = "system"}
    IN IF idx = {} THEN ""
       ELSE msgs[CHOOSE i \in idx : \A j \in idx : j <= i].content

IsNotSystem(m) == m.role # "system"
\* a filter that keeps the user's turns only, so the assistant's are lost too
IsUser(m) == m.role = "user"
UserMessages_onlyuser(msgs) == SelectSeq(msgs, IsUser)

UserMessages(msgs) == SelectSeq(msgs, IsNotSystem)

AnthropicPayload(config, msgs, kw) ==
    LET base == [model |-> config.model, max_tokens |-> config.max_tokens,
                 messages |-> UserMessages(msgs)]
    IN IF SystemMessage(msgs) # "" THEN SetItem(base, "system", SystemMessage(msgs))
       ELSE base

AnthropicResult(config, resp) ==
    IF resp.exc # None THEN Raise(Exc(resp.exc, None, 0, ExcText(resp.exc)))
    ELSE IF resp.status # 200
    THEN Raise(Exc("Exception", "Anthropic", resp.status, resp.body))
    ELSE IF ~Json(resp.body).valid
    THEN Raise(Exc("ContentTypeError", None, 0, "Attempt to decode JSON"))
    ELSE IF Json(resp.body).type # "dict"
    THEN Raise(Exc("TypeError", None, 0, "list indices must be integers or slices, not str"))
    ELSE LET result == Json(resp.body).value
         IN IF "content" \notin DOMAIN result
            THEN Raise(Exc("KeyError", None, 0, "'content'"))
            ELSE IF Len(result.content) = 0
            THEN Raise(Exc("IndexError", None, 0, "list index out of range"))
            ELSE IF "text" \notin DOMAIN result.content[1]
            THEN Raise(Exc("KeyError", None, 0, "'text'"))
            ELSE Ok([provider |-> "anthropic",
                     model |-> config.model,
                     choices |-> << [message |-> [role |-> "assistant",
                                        content |-> result.content[1].text]] >>,
                     usage |-> IF "usage" \in DOMAIN result THEN result.usage
                               ELSE [input_tokens |-> 0, output_tokens |-> 0]])

(* ------------- _call_openrouter, _call_perplexity, _call_deepseek ------- *)
Label(p) ==
    CASE p = ANTHROPIC -> "Anthropic"
      [] p = OPENROUTER -> "OpenRouter"
      [] p = PERPLEXITY -> "Perplexity"
      [] p = DEEPSEEK -> "DeepSeek"

Temperature(kw) == IF "temperature" \in DOMAIN kw THEN kw.temperature ELSE "0.7"

OpenAIPayload(config, msgs, kw) ==
    [model |-> config.model, messages |-> msgs, max_tokens |-> config.max_tokens,
     temperature |-> Temperature(kw)]

OpenAIResult(p, config, resp) ==
    IF resp.exc # None THEN Raise(Exc(resp.exc, None, 0, ExcText(resp.exc)))
    ELSE IF resp.status # 200
    THEN Raise(Exc("Exception", Label(p), resp.status, resp.body))
    ELSE IF ~Json(resp.body).valid
    THEN Raise(Exc("ContentTypeError", None, 0, "Attempt to decode JSON"))
    ELSE IF Json(resp.body).type # "dict"
    THEN Raise(Exc("TypeError", None, 0, "list indices must be integers or slices, not str"))
    ELSE Ok(SetItem(Json(resp.body).value, "provider", p))

(* ------------------------------ _call_provider ------------------------- *)
\* the request a _call_* coroutine posts before it awaits the response
Request(p, msgs, kw) ==
    LET config == Lookup(providers, p)
    IN [provider |-> p, url |-> config.base_url, api_key |-> config.api_key,
        payload |-> IF p = ANTHROPIC THEN AnthropicPayload(config, msgs, kw)
                    ELSE OpenAIPayload(config, msgs, kw)]

\* what the _call_* coroutine does with the response: return or raise
\* a dispatch that sends every provider's response through the Anthropic parser
_call_provider_nodispatch(p, resp) ==
    AnthropicResult(Lookup(providers, p), resp)

_call_provider(p, resp) ==
    LET config == Lookup(providers, p)
    IN IF p = ANTHROPIC THEN AnthropicResult(config, resp)
       ELSE OpenAIResult(p, config, resp)

(* --------------------------- _get_fallback_provider -------------------- *)
IsNotCurrent(p) == p # current_provider
\* the list _get_fallback_provider picks from: the keys without the current one
available_providers == SelectSeq(Keys(providers), IsNotCurrent)

\* the current provider is not removed from the list: it is its own fallback
_get_fallback_provider_keepcurrent ==
    IF Len(providers) > 0 THEN Keys(providers)[1] ELSE None

\* the failed provider is tried a second time
_get_fallback_provider_retry == current_provider

\* a fallback chosen by the alphabetical order of the enum values
AlphaOrder == <<ANTHROPIC, DEEPSEEK, OPENROUTER, PERPLEXITY>>
_get_fallback_provider_alphabetical ==
    LET idx == {k \in 1..4 : AlphaOrder[k] \in KeySet(providers) \ {current_provider}}
    IN IF idx # {} THEN AlphaOrder[CHOOSE k \in idx : \A j \in idx : k <= j] ELSE None

\* a fallback chosen from the wrong end of the list
_get_fallback_provider_last ==
    IF Len(available_providers) > 0
    THEN available_providers[Len(available_providers)] ELSE None

_get_fallback_provider ==
    IF Len(available_providers) > 0 THEN available_providers[1] ELSE None

LogRecord(level, p, e) == [level |-> level, provider |-> p, error |-> e]

\* the provider errors the raised exception carries: its message embeds str(e)
\* of the primary's exception and nothing of the fallback's
ErrorEntries(exc) == << exc.primary >>

\* the primary's exception raised again as it is, without the aggregate
AllFailed_reraise(e) == [kind |-> "raise", value |-> NoneObj, exc |-> e]

AllFailed(e) ==
    [kind |-> "raise", value |-> NoneObj,
     exc |-> [type |-> "Exception", message |-> "All AI providers failed. Primary: ",
              primary |-> Str(e)]]
Returned(v) == [kind |-> "return", value |-> v, exc |-> NoneObj]
\* the value of outcome while the invocation has given its caller nothing
Pending == [kind |-> "pending", value |-> NoneObj, exc |-> NoneObj]

\* the tasks that can run chat_completion concurrently on one object
Tasks == 1..NumTasks
IdleInvocation ==
    [pc |-> "idle", messages |-> << >>, calls |-> << >>, replies |-> << >>,
     primary_error |-> NoExc, outcome |-> Pending]

\* the permission slot before any call
NoPermission == [call |-> "none"]

\* a SubscriptionManager on a fresh database: the tables exist and are empty
TiersIdle ==
    /\ users = << >>
    /\ usage_log = << >>
    /\ subscription_history = << >>
    /\ permission = NoPermission

\* the tasks that can run process_user_request concurrently
RequestTasks == 1..NumRequests
IdleRequest == [pc |-> "idle", persona |-> None, actions |-> << >>, complexity |-> None]

\* UnifiedExecutionOrchestrator(): a Regular Plan user with 1000 credits
OrchIdle ==
    /\ user_subscription = "regular_plan"
    /\ user_credits = 1000
    /\ requests = [t \in RequestTasks |-> IdleRequest]
    /\ executed_cost = 0

\* operate_computer_system has not been called
ControlIdle ==
    /\ command_call = [command |-> << >>, user |-> NoneObj]
    /\ executed = << >>
    /\ command_result = NoneObj

\* no VoiceFallbackManager yet
VoiceIdle ==
    /\ elevenlabs_available = FALSE
    /\ openai_tts_available = FALSE
    /\ desktop_tts = FALSE
    /\ current_tts_mode = None
    /\ speak_call = NoneObj
    /\ spoken = << >>
    /\ speak_result = None

\* the persona of a new MultiAIProvider and the history of a new assistant
AssistantIdle ==
    /\ current_persona = "banks"
    /\ message_call = NoneObj
    /\ message_result = NoneObj
    /\ conversation_history = << >>
    /\ assistant_result = NoneObj

\* the server sockets that may be accepted in a run
Websockets == {"ws1", "ws2"}

\* VPSOrchestrator.__init__, no connection accepted yet
HybridIdle ==
    /\ desktop_connections = [w \in Websockets |-> [state |-> "none", desktop_id |-> None]]
    /\ connected_desktops = << >>
    /\ pattern_storage = << >>
    /\ claude_result = NoneObj

\* before ProgressStore()
ProgressIdle ==
    /\ progress_obj = "new"
    /\ new_connector = NoneObj
    /\ old_connector = NoneObj
    /\ memory_client = NoneObj
    /\ progress_result = NoneObj

\* the other modules, constructed and not yet used
OthersIdle ==
    /\ TiersIdle /\ OrchIdle /\ ControlIdle /\ VoiceIdle /\ AssistantIdle
    /\ HybridIdle /\ ProgressIdle

Init ==
    /\ OthersIdle
    /\ env \in [EnvVars -> UNION {EnvValues(v) : v \in EnvVars}]
    /\ \A v \in EnvVars : env[v] \in EnvValues(v)
    /\ obj = "new"
    /\ providers = << >>
    /\ current_provider = None
    /\ pc = "idle"
    /\ messages = << >>
    /\ kwargs = << >>
    /\ calls = << >>
    /\ log = << >>
    /\ replies = << >>
    /\ primary_error = NoExc
    /\ outcome = Pending
    /\ inv = [t \in Tasks |-> IdleInvocation]

\* the process before a MultiAIProvider is constructed, no key in the environment
ProviderIdle ==
    /\ env = [v \in EnvVars |-> None]
    /\ obj = "new"
    /\ providers = << >>
    /\ current_provider = None
    /\ pc = "idle"
    /\ messages = << >>
    /\ kwargs = << >>
    /\ calls = << >>
    /\ log = << >>
    /\ replies = << >>
    /\ primary_error = NoExc
    /\ outcome = Pending
    /\ inv = [t \in Tasks |-> IdleInvocation]

aivars ==
    <<env, obj, providers, current_provider, pc, messages, kwargs, calls, log,
      replies, primary_error, outcome, inv>>

\* MultiAIProvider.__init__
Construct ==
    /\ obj = "new"
    /\ providers' = _initialize_providers
    /\ current_provider' = _select_primary_provider(providers')
    /\ obj' = IF current_provider' = None THEN "ValueError" ELSE "ready"
    /\ UNCHANGED <<env, pc, messages, kwargs, calls, log, replies, primary_error, outcome,
                   inv, others>>

\* both requests posted at once, the fallback's speculatively
ChatCompletionStart_parallel(msgs, kw) ==
    /\ obj = "ready"
    /\ pc = "idle"
    /\ messages' = msgs
    /\ kwargs' = kw
    /\ calls' = IF _get_fallback_provider # None
                THEN << Request(current_provider, msgs, kw),
                        Request(_get_fallback_provider, msgs, kw) >>
                ELSE << Request(current_provider, msgs, kw) >>
    /\ log' = << >>
    /\ replies' = << >>
    /\ primary_error' = NoExc
    /\ outcome' = Pending
    /\ pc' = "await_primary"
    /\ UNCHANGED <<env, obj, providers, current_provider, inv, others>>

\* chat_completion up to its first await: the request to the primary is posted
ChatCompletionStart(msgs, kw) ==
    /\ obj = "ready"
    /\ pc = "idle"
    /\ messages' = msgs
    /\ kwargs' = kw
    /\ calls' = << Request(current_provider, msgs, kw) >>
    /\ log' = << >>
    /\ replies' = << >>
    /\ primary_error' = NoExc
    /\ outcome' = Pending
    /\ pc' = "await_primary"
    /\ UNCHANGED <<env, obj, providers, current_provider, inv, others>>

\* the primary's response arrives: return it, or catch the exception, log it
\* and post the request to the fallback provider, or raise when there is none
PrimaryResponse(resp) ==
    /\ pc = "await_primary"
    /\ replies' = Append(replies, resp)
    /\ LET r == _call_provider(current_provider, resp)
           fallback_provider == _get_fallback_provider
       IN IF r.ok
          THEN /\ outcome' = Returned(r.value)
               /\ pc' = "done"
               /\ UNCHANGED <<calls, log, primary_error>>
          ELSE /\ primary_error' = r.error
               /\ IF fallback_provider # None
                  THEN /\ log' = log \o << LogRecord("warning", current_provider, Str(r.error)),
                                          LogRecord("info", fallback_provider, NoneObj) >>
                       /\ calls' = Append(calls, Request(fallback_provider, messages, kwargs))
                       /\ pc' = "await_fallback"
                       /\ UNCHANGED outcome
                  ELSE /\ log' = Append(log, LogRecord("warning", current_provider, Str(r.error)))
                       /\ outcome' = AllFailed(r.error)
                       /\ pc' = "done"
                       /\ UNCHANGED calls
    /\ UNCHANGED <<env, obj, providers, current_provider, messages, kwargs, inv, others>>

\* a fallback that answered becomes the object's current provider
FallbackResponse_sticky(resp) ==
    /\ pc = "await_fallback"
    /\ replies' = Append(replies, resp)
    /\ LET r == _call_provider(_get_fallback_provider, resp)
       IN IF r.ok
          THEN /\ outcome' = Returned(r.value)
               /\ current_provider' = _get_fallback_provider
               /\ UNCHANGED log
          ELSE /\ log' = Append(log, LogRecord("error", _get_fallback_provider, Str(r.error)))
               /\ outcome' = AllFailed(primary_error)
               /\ UNCHANGED current_provider
    /\ pc' = "done"
    /\ UNCHANGED <<env, obj, providers, messages, kwargs, calls, primary_error, inv, others>>

\* the fallback's response arrives: return it, or log its exception and raise
FallbackResponse(resp) ==
    /\ pc = "await_fallback"
    /\ replies' = Append(replies, resp)
    /\ LET r == _call_provider(_get_fallback_provider, resp)
       IN IF r.ok
          THEN /\ outcome' = Returned(r.value)
               /\ UNCHANGED log
          ELSE /\ log' = Append(log, LogRecord("error", _get_fallback_provider, Str(r.error)))
               /\ outcome' = AllFailed(primary_error)
    /\ pc' = "done"
    /\ UNCHANGED <<env, obj, providers, current_provider, messages, kwargs, calls,
                   primary_error, inv, others>>

\* a handler that catches everything, cancellation included (`except:` or
\* `except BaseException`)
CaughtByExcept_bare(type) == TRUE

\* a handler narrowed to the HTTP client's errors (`except aiohttp.ClientError`)
CaughtByExcept_clienterror(type) == type = "ClientConnectorError"

\* `except Exception` (both handlers): does it catch an exception of this type?
\* asyncio.CancelledError derives from BaseException, everything else that the
\* awaited post raises derives from Exception
CaughtByExcept(type) == type # "CancelledError"

\* what the awaited post ends with when it raises without a response
Interrupt(type) == [exc |-> type, status |-> 0, body |-> ""]

\* an exception that no handler of chat_completion catches leaves it
Propagated(e) ==
    [kind |-> IF e.type = "CancelledError" THEN "cancelled" ELSE "raise",
     value |-> NoneObj, exc |-> e]

\* the awaited post raises an exception of this type: the except clause
\* treats it like any failed call, or it propagates to the caller
AwaitRaises(type) ==
    IF CaughtByExcept(type)
    THEN PrimaryResponse(Interrupt(type)) \/ FallbackResponse(Interrupt(type))
    ELSE /\ pc \in {"await_primary", "await_fallback"}
         /\ replies' = Append(replies, Interrupt(type))
         /\ outcome' = Propagated(Exc(type, None, 0, ExcText(type)))
         /\ pc' = "done"
         /\ UNCHANGED <<env, obj, providers, current_provider, messages, kwargs, calls,
                        log, primary_error, inv, others>>

\* the caller cancels the task while it awaits a provider
Cancel == AwaitRaises("CancelledError")

\* the session's total timeout (aiohttp's default ClientTimeout) expires
\* while the post is awaited
Timeout == AwaitRaises("TimeoutError")

\* the caller has taken the result or the exception; the object is idle again
Finish ==
    /\ pc = "done"
    /\ pc' = "idle"
    /\ UNCHANGED <<env, obj, providers, current_provider, messages, kwargs, calls, log,
                   replies, primary_error, outcome, inv, others>>

Next ==
    \/ Construct
    \/ \E msgs \in MessageLists, kw \in KwargsSet : ChatCompletionStart(msgs, kw)
    \/ \E resp \in Responses : PrimaryResponse(resp)
    \/ \E resp \in Responses : FallbackResponse(resp)
    \/ Cancel
    \/ Timeout
    \/ Finish

Spec == Init /\ [][Next]_vars

(* ======================= properties of chat_completion ================= *)
\* the invocation has handed its caller a return value / an exception
HasReturned == pc = "done" /\ outcome.kind = "return"
HasRaised == pc = "done" /\ outcome.kind = "raise"

\* the failure records of the invocation's log (warning and error level)
IsFailureRecord(r) == r.level \in {"warning", "error"}
FailureEntries == SelectSeq(log, IsFailureRecord)

\* the providers the invocation has posted a request to
Attempted == {calls[i].provider : i \in 1..Len(calls)}

\* C1: when the primary's call fails and the secondary's call succeeds, the
\* result carries the secondary's provider name and the invocation's log holds
\* exactly one failure record, the primary's.
C1_FallbackResult ==
    (HasReturned /\ primary_error # NoExc) =>
        /\ outcome.value.provider = Keys(providers)[2]
        /\ Len(FailureEntries) = 1
        /\ FailureEntries[1].provider = Keys(providers)[1]
        /\ FailureEntries[1].error = Str(primary_error)

C1_Witness ==
    /\ HasReturned
    /\ primary_error # NoExc
    /\ Len(providers) >= 3
    /\ replies[1].status = 500

\* the body is a JSON object, and for Anthropic one that has content[0].text
WellFormedBody(p, body) ==
    /\ Json(body).valid
    /\ Json(body).type = "dict"
    /\ p = ANTHROPIC =>
         /\ "content" \in DOMAIN Json(body).value
         /\ Len(Json(body).value.content) > 0
         /\ "text" \in DOMAIN Json(body).value.content[1]

\* the primary's reply is an HTTP 2xx whose body is in the provider's own
\* response format (the other providers answer with a choices list)
PrimarySucceeded2xx ==
    /\ Len(replies) >= 1
    /\ replies[1].exc = None
    /\ replies[1].status \in 200..299
    /\ WellFormedBody(current_provider, replies[1].body)
    /\ current_provider # ANTHROPIC =>
         /\ "choices" \in DOMAIN Json(replies[1].body).value
         /\ Len(Json(replies[1].body).value.choices) > 0

\* the reply is a 200 with such a body
WellFormed200(p, resp) ==
    /\ resp.exc = None
    /\ resp.status = 200
    /\ WellFormedBody(p, resp.body)

C3_AllAttemptedBeforeRaise ==
    HasRaised =>
        /\ Attempted = KeySet(providers)
        /\ Len(replies) = Len(providers)

\* C4: when all configured providers fail, the raised error holds exactly N
\* entries (N the number of configured providers), the i-th being the error
\* of the i-th configured provider.
C4_AggregateHasAllEntries ==
    HasRaised =>
        /\ Len(ErrorEntries(outcome.exc)) = Len(providers)
        /\ \A i \in 1..Len(providers) :
              /\ FailureEntries[i].provider = Keys(providers)[i]
              /\ ErrorEntries(outcome.exc)[i] = FailureEntries[i].error

\* C5: an invocation with non-empty messages that is not cancelled ends
\* either with one result
\* whose provider is the configured provider that answered, or with the
\* aggregate failure after as many attempts as there are configured providers.
C5_OneOfTwoOutcomes ==
    (pc = "done" /\ messages # << >> /\ outcome.kind # "cancelled") =>
        \/ /\ outcome.kind = "return"
           /\ outcome.value.provider \in KeySet(providers)
           /\ outcome.value.provider = calls[Len(calls)].provider
        \/ /\ outcome.kind = "raise"
           /\ Len(calls) = Len(providers)

\* C6: an invocation with an empty messages list posts no request and ends
\* with a validation error.
C6_EmptyMessagesRejected ==
    (pc # "idle" /\ messages = << >>) =>
        /\ calls = << >>
        /\ pc = "done"
        /\ outcome.kind = "raise"
        /\ outcome.exc.type = "ValidationError"

OwnKeyMissing(p) == ~(env[KeyVar(p)] # None /\ env[KeyVar(p)] # "")
StatusProviders ==
    {get_provider_status.providers[i].provider :
        i \in 1..Len(get_provider_status.providers)}
Excluded(p) == p \notin KeySet(providers) \cup StatusProviders \cup Attempted

ConfigOrder == <<ANTHROPIC, OPENROUTER, PERPLEXITY, DEEPSEEK>>
C8_PrimaryIsFirstWithKey ==
    LET idx == {k \in 1..4 : ~OwnKeyMissing(ConfigOrder[k])}
    IN (obj # "new" /\ idx # {}) =>
          /\ obj = "ready"
          /\ current_provider = ConfigOrder[CHOOSE k \in idx : \A j \in idx : k <= j]

\* C9: every request of an invocation goes to the earliest-configured
\* provider that the invocation has not attempted yet.
C9_FallbackOrder ==
    \A i \in 1..Len(calls) :
        LET prev == {calls[j].provider : j \in 1..(i - 1)}
            idx == {k \in 1..Len(providers) : providers[k].provider \notin prev}
        IN /\ idx # {}
           /\ calls[i].provider = providers[CHOOSE k \in idx : \A j \in idx : k <= j].provider

C9_Witness ==
    /\ pc = "done"
    /\ Len(calls) = 2
    /\ current_provider = ANTHROPIC
    /\ DEEPSEEK \in KeySet(providers)
    /\ calls[2].provider = OPENROUTER

\* C10: a result is returned only from a well-formed response: a body that
\* lacks the expected field is never handed to the caller as a result.
C10_MalformedNeverReturned ==
    HasReturned =>
        /\ "choices" \in DOMAIN outcome.value
        /\ Len(outcome.value.choices) > 0

\* the exception is the aggregate one built by chat_completion's last line
IsAggregate(exc) ==
    /\ exc.type = "Exception"
    /\ "message" \in DOMAIN exc
    /\ exc.message = "All AI providers failed. Primary: "

\* the providers' own exceptions of this invocation, one per failed call
ProviderErrors ==
    {_call_provider(calls[i].provider, replies[i]).error :
        i \in {j \in 1..Len(replies) : ~_call_provider(calls[j].provider, replies[j]).ok}}

\* C11: an exception that leaves chat_completion is the aggregate failure (or
\* the validation error), never a provider's own exception, and every failed
\* call so far was caught: its invocation went on or ended with the aggregate.
C11_OnlyAggregateEscapes ==
    /\ (pc \in {"done", "idle"} /\ outcome.kind = "raise") =>
          /\ IsAggregate(outcome.exc) \/ outcome.exc.type = "ValidationError"
          /\ outcome.exc \notin ProviderErrors
    /\ (pc = "done" /\ outcome.kind # "cancelled" /\ ProviderErrors # {}) =>
          \/ outcome.kind = "return"
          \/ outcome.kind = "raise" /\ IsAggregate(outcome.exc)

C11_Witness ==
    /\ HasRaised
    /\ Len(replies) = 2
    /\ replies[1].status = 500
    /\ replies[2].exc = "TimeoutError"

\* C12: with exactly one configured provider a failure of that provider ends
\* the invocation with the aggregate error carrying one entry, after exactly
\* one request and no fallback.
C12_SingleProviderNoFallback ==
    (Len(providers) = 1 /\ pc # "idle" /\ outcome.kind # "cancelled"
        /\ Len(replies) >= 1 /\ ~_call_provider(current_provider, replies[1]).ok) =>
        /\ HasRaised
        /\ IsAggregate(outcome.exc)
        /\ Len(ErrorEntries(outcome.exc)) = 1
        /\ ErrorEntries(outcome.exc)[1] = Str(primary_error)
        /\ Len(calls) = 1
        /\ _get_fallback_provider = None

C12_Witness ==
    /\ HasRaised
    /\ Len(providers) = 1
    /\ Len(calls) = 1
    /\ replies[1].status = 500

\* position of a provider in the insertion order of self.providers
Pos(p) == CHOOSE i \in 1..Len(providers) : providers[i].provider = p

\* C13: on a constructed object the primary is one configured provider, the
\* fallback candidates are exactly the other configured providers in
\* insertion order, and the status reports that primary and exactly the
\* configured providers.
C13_PrimaryAndFallbackSet ==
    obj = "ready" =>
        /\ current_provider \in KeySet(providers)
        /\ Cardinality({i \in 1..Len(providers) :
                            providers[i].provider = current_provider}) = 1
        /\ {available_providers[i] : i \in 1..Len(available_providers)}
              = KeySet(providers) \ {current_provider}
        /\ Len(available_providers) = Len(providers) - 1
        /\ \A i, j \in 1..Len(available_providers) :
              i < j => Pos(available_providers[i]) < Pos(available_providers[j])
        /\ get_provider_status.primary_provider = current_provider
        /\ [i \in 1..Len(get_provider_status.providers) |->
              get_provider_status.providers[i].provider] = Keys(providers)

C13_Witness ==
    /\ obj = "ready"
    /\ current_provider = OPENROUTER
    /\ Len(available_providers) = 2
    /\ pc = "done"
    /\ Len(calls) = 2

\* C14: at most one request of an invocation is unanswered at any time, and
\* a further request is posted only after every earlier one has ended in a
\* failure.
C14_StrictlySequential ==
    /\ Len(calls) - Len(replies) \in {0, 1}
    /\ \A i \in 1..(Len(calls) - 1) :
          /\ i <= Len(replies)
          /\ ~_call_provider(calls[i].provider, replies[i]).ok

C14_Witness ==
    /\ pc = "await_fallback"
    /\ Len(calls) = 2
    /\ Len(replies) = 1

\* C15: an invocation posts at most one request to each provider, hence no
\* more requests than there are configured providers.
C15_OneAttemptPerProvider ==
    /\ \A i, j \in 1..Len(calls) : i # j => calls[i].provider # calls[j].provider
    /\ Len(calls) <= Len(providers)

C15_Witness ==
    /\ HasRaised
    /\ Len(calls) = 2
    /\ Len(providers) = 2

\* the caller has cancelled the invocation: the awaited post ended with
\* CancelledError
WasCancelled == \E i \in 1..Len(replies) : replies[i].exc = "CancelledError"

\* C16: once the caller has cancelled an invocation, the cancelled request is
\* its last one, the invocation has ended as cancelled, and the cancellation
\* is not logged as a provider failure.
C16_CancelStopsFallback ==
    WasCancelled =>
        /\ pc \in {"done", "idle"}
        /\ outcome.kind = "cancelled"
        /\ Len(calls) = Len(replies)
        /\ replies[Len(replies)].exc = "CancelledError"
        /\ Len(FailureEntries) = Len(replies) - 1
        /\ \A i \in 1..Len(replies) :
              replies[i].exc = "CancelledError" => i = Len(replies)

C16_Witness ==
    /\ WasCancelled
    /\ Len(calls) = 1
    /\ Len(providers) >= 2
    /\ pc = "done"

\* Spec with the one progress assumption the HTTP client gives: while a post
\* is awaited, the session's total timeout eventually expires.  Termination
\* does not depend on what is sent, so the requests are drawn from two lists.
LiveMessageLists ==
    { << Msg("user", "Hi") >>, << Msg("system", "Be brief."), Msg("user", "Hi") >> }

LiveNext ==
    \/ Construct
    \/ \E msgs \in LiveMessageLists : ChatCompletionStart(msgs, [temperature |-> "0.2"])
    \/ \E resp \in Responses : PrimaryResponse(resp)
    \/ \E resp \in Responses : FallbackResponse(resp)
    \/ Cancel
    \/ Timeout
    \/ Finish

LiveSpec == Init /\ [][LiveNext]_vars /\ WF_vars(Timeout)

\* a request that timed out is handled as a failed attempt: it is logged as a
\* failure, is never the exception the caller gets, and the primary's timeout
\* is followed by the request to the fallback when there is one
TimeoutIsFailure ==
    \A i \in 1..Len(replies) :
        replies[i].exc = "TimeoutError" =>
            /\ Len(FailureEntries) >= i
            /\ outcome.kind = "raise" => IsAggregate(outcome.exc)
            /\ (i = 1 /\ Len(providers) >= 2) => Len(calls) = 2

\* C17: a request that gets no response ends by the timeout and counts as a
\* failed attempt, and every invocation that awaits a provider eventually
\* ends.
C17_BoundedAttempts ==
    /\ []TimeoutIsFailure
    /\ (pc \in {"await_primary", "await_fallback"}) ~> (pc = "done")

C17_Witness ==
    /\ HasReturned
    /\ Len(replies) = 2
    /\ replies[1].exc = "TimeoutError"

(* ================== concurrent invocations on one object =============== *)
\* Several tasks run chat_completion on the same MultiAIProvider.  Each has
\* its own locals (inv[t]); self.providers and self.current_provider are the
\* object's.  The inputs are a few requests and replies that take every path.
ConcMessageLists ==
    { << Msg("user", "Hi") >>, << Msg("system", "Be brief."), Msg("user", "Hi") >> }
ConcKwargs == [temperature |-> "0.2"]
ConcResponses ==
    { [exc |-> None, status |-> 200, body |-> "anthropic_ok"],
      [exc |-> None, status |-> 500, body |-> "error_obj"],
      [exc |-> "ClientConnectorError", status |-> 0, body |-> ""] }

\* chat_completion of task t up to its first await
TaskStart(t, msgs) ==
    /\ obj = "ready"
    /\ inv[t].pc = "idle"
    /\ inv' = [inv EXCEPT ![t] =
                 [pc |-> "await_primary", messages |-> msgs,
                  calls |-> << Request(current_provider, msgs, ConcKwargs) >>,
                  replies |-> << >>, primary_error |-> NoExc, outcome |-> Pending]]
    /\ UNCHANGED <<env, obj, providers, current_provider, pc, messages, kwargs, calls,
                   log, replies, primary_error, outcome, others>>

\* the primary's response arrives for task t
TaskPrimaryResponse(t, resp) ==
    /\ inv[t].pc = "await_primary"
    /\ LET r == _call_provider(inv[t].calls[1].provider, resp)
           fallback_provider == _get_fallback_provider
           got == [inv[t] EXCEPT !.replies = Append(@, resp)]
       IN inv' = [inv EXCEPT ![t] =
            IF r.ok
            THEN [got EXCEPT !.outcome = Returned(r.value), !.pc = "done"]
            ELSE IF fallback_provider # None
            THEN [got EXCEPT !.primary_error = r.error,
                             !.calls = Append(@, Request(fallback_provider,
                                                         inv[t].messages, ConcKwargs)),
                             !.pc = "await_fallback"]
            ELSE [got EXCEPT !.primary_error = r.error,
                             !.outcome = AllFailed(r.error), !.pc = "done"]]
    /\ UNCHANGED <<env, obj, providers, current_provider, pc, messages, kwargs, calls,
                   log, replies, primary_error, outcome, others>>

\* a fallback that answered is promoted to current provider of the object
TaskFallbackResponse_sticky(t, resp) ==
    /\ inv[t].pc = "await_fallback"
    /\ LET r == _call_provider(inv[t].calls[2].provider, resp)
           got == [inv[t] EXCEPT !.replies = Append(@, resp), !.pc = "done"]
       IN /\ inv' = [inv EXCEPT ![t] =
                IF r.ok THEN [got EXCEPT !.outcome = Returned(r.value)]
                ELSE [got EXCEPT !.outcome = AllFailed(inv[t].primary_error)]]
          /\ current_provider' = IF r.ok THEN inv[t].calls[2].provider
                                 ELSE current_provider
    /\ UNCHANGED <<env, obj, providers, pc, messages, kwargs, calls,
                   log, replies, primary_error, outcome, others>>

\* the fallback's response arrives for task t
TaskFallbackResponse(t, resp) ==
    /\ inv[t].pc = "await_fallback"
    /\ LET r == _call_provider(inv[t].calls[2].provider, resp)
           got == [inv[t] EXCEPT !.replies = Append(@, resp), !.pc = "done"]
       IN inv' = [inv EXCEPT ![t] =
            IF r.ok THEN [got EXCEPT !.outcome = Returned(r.value)]
            ELSE [got EXCEPT !.outcome = AllFailed(inv[t].primary_error)]]
    /\ UNCHANGED <<env, obj, providers, current_provider, pc, messages, kwargs, calls,
                   log, replies, primary_error, outcome, others>>

\* the caller of task t has taken the result; its locals are gone
TaskFinish(t) ==
    /\ inv[t].pc = "done"
    /\ inv' = [inv EXCEPT ![t] = IdleInvocation]
    /\ UNCHANGED <<env, obj, providers, current_provider, pc, messages, kwargs, calls,
                   log, replies, primary_error, outcome, others>>

ConcNext ==
    \/ Construct
    \/ \E t \in Tasks, msgs \in ConcMessageLists : TaskStart(t, msgs)
    \/ \E t \in Tasks, resp \in ConcResponses : TaskPrimaryResponse(t, resp)
    \/ \E t \in Tasks, resp \in ConcResponses : TaskFallbackResponse(t, resp)
    \/ \E t \in Tasks : TaskFinish(t)

ConcSpec == Init /\ [][ConcNext]_vars

\* what one invocation does when it runs alone on the object as constructed:
\* the providers it posts to and what it gives its caller, from its replies
AlonePrimary == _select_primary_provider(_initialize_providers)
AloneFallback ==
    LET ks == Keys(_initialize_providers)
        idx == {k \in 1..Len(ks) : ks[k] # AlonePrimary}
    IN IF idx = {} THEN None ELSE ks[CHOOSE k \in idx : \A j \in idx : k <= j]

AloneProviders(reps) ==
    IF Len(reps) = 0 \/ _call_provider(AlonePrimary, reps[1]).ok \/ AloneFallback = None
    THEN << AlonePrimary >>
    ELSE << AlonePrimary, AloneFallback >>

AloneOutcome(reps) ==
    IF Len(reps) = 0 THEN Pending
    ELSE LET r1 == _call_provider(AlonePrimary, reps[1])
         IN IF r1.ok THEN Returned(r1.value)
            ELSE IF AloneFallback = None THEN AllFailed(r1.error)
            ELSE IF Len(reps) = 1 THEN Pending
            ELSE LET r2 == _call_provider(AloneFallback, reps[2])
                 IN IF r2.ok THEN Returned(r2.value) ELSE AllFailed(r1.error)

\* C18: under every interleaving each running invocation has posted, with
\* its own messages, to the providers it would post to alone, and gives its
\* caller what it would give alone.
C18_NoInterference ==
    \A t \in Tasks :
        inv[t].pc # "idle" =>
            /\ [i \in 1..Len(inv[t].calls) |-> inv[t].calls[i].provider]
                  = AloneProviders(inv[t].replies)
            /\ \A i \in 1..Len(inv[t].calls) :
                  inv[t].calls[i] =
                      Request(inv[t].calls[i].provider, inv[t].messages, ConcKwargs)
            /\ inv[t].outcome = AloneOutcome(inv[t].replies)

C18_Witness ==
    /\ inv[1].pc = "await_primary"
    /\ inv[2].pc = "done"
    /\ Len(inv[2].calls) = 2
    /\ inv[2].outcome.kind = "return"
    /\ inv[1].messages # inv[2].messages

\* C19: no step taken on a constructed object changes the environment it was
\* built from, its provider set, a provider's config or its primary: the
\* object keeps nothing of a request or a result.
C19_ConfigNeverMutated ==
    [][obj = "ready" =>
          /\ obj' = obj
          /\ env' = env
          /\ providers' = providers
          /\ current_provider' = current_provider]_vars

C19_Witness ==
    /\ pc = "idle"
    /\ outcome.kind = "return"
    /\ Len(calls) = 2
    /\ providers = _initialize_providers
    /\ current_provider = _select_primary_provider(_initialize_providers)

\* C20: every request of an invocation carries the temperature and the
\* max_tokens passed to chat_completion, and the provider's configured
\* max_tokens when none is passed.
C20_OptionsOverride ==
    \A i \in 1..Len(calls) :
        LET payload == calls[i].payload
            config == Lookup(providers, calls[i].provider)
        IN /\ "temperature" \in DOMAIN kwargs =>
                 /\ "temperature" \in DOMAIN payload
                 /\ payload.temperature = kwargs.temperature
           /\ "max_tokens" \in DOMAIN kwargs => payload.max_tokens = kwargs.max_tokens
           /\ "max_tokens" \notin DOMAIN kwargs => payload.max_tokens = config.max_tokens

(* ============== translation of the message list (C21) ================== *)
\* Spec with the message lists that exercise the translation: a system
\* message with content, one with empty content, several of them, at any
\* position.  What the provider answers does not change what was sent, so the
\* responses are drawn from two and the awaits are not interrupted.
TranslateMsgSet ==
    {Msg("system", "Be brief."), Msg("system", ""), Msg("user", "Hi"),
     Msg("assistant", "Hello.")}
TranslateMessageLists == SeqsUpTo(TranslateMsgSet, MaxTranslate)
TranslateResponses ==
    {[exc |-> None, status |-> 200, body |-> "openai_ok"],
     [exc |-> None, status |-> 500, body |-> "error_obj"]}

TranslateNext ==
    \/ Construct
    \/ \E msgs \in TranslateMessageLists :
          ChatCompletionStart(msgs, [temperature |-> "0.2"])
    \/ \E resp \in TranslateResponses : PrimaryResponse(resp)
    \/ \E resp \in TranslateResponses : FallbackResponse(resp)
    \/ Finish

TranslateSpec == Init /\ [][TranslateNext]_vars

\* the positions of the system messages of a list
SystemPositions(msgs) == {i \in 1..Len(msgs) : msgs[i].role = "system"}

\* the list without its system messages, built front to back
RECURSIVE WithoutSystem(_)
WithoutSystem(msgs) ==
    IF msgs = << >> THEN << >>
    ELSE IF Head(msgs).role = "system" THEN WithoutSystem(Tail(msgs))
    ELSE << Head(msgs) >> \o WithoutSystem(Tail(msgs))

\* the non-system messages reach Anthropic in their order, none dropped, and
\* no system message is among them; the other providers get the list as it is
ForwardedInOrder(i) ==
    IF calls[i].provider = ANTHROPIC
    THEN calls[i].payload.messages = WithoutSystem(messages)
    ELSE calls[i].payload.messages = messages

\* C21 as stated: a list with one system message reaches Anthropic with that
\* message's content in the system field, whatever the content is.
C21_Original ==
    \A i \in 1..Len(calls) :
        Cardinality(SystemPositions(messages)) <= 1 =>
            /\ ForwardedInOrder(i)
            /\ (calls[i].provider = ANTHROPIC /\ SystemPositions(messages) # {}) =>
                  /\ "system" \in DOMAIN calls[i].payload
                  /\ \E j \in SystemPositions(messages) :
                        calls[i].payload.system = messages[j].content

\* C21 (amended): the system message is removed from the list sent to
\* Anthropic and its content, when not empty, is sent as the system field
\* (an empty one is sent as no field); the non-system messages are forwarded
\* in order, none dropped; the other providers get the list unchanged.
C21_SystemExtracted ==
    \A i \in 1..Len(calls) :
        Cardinality(SystemPositions(messages)) <= 1 =>
            /\ ForwardedInOrder(i)
            /\ calls[i].provider = ANTHROPIC =>
                  \A j \in SystemPositions(messages) :
                      IF messages[j].content # ""
                      THEN /\ "system" \in DOMAIN calls[i].payload
                           /\ calls[i].payload.system = messages[j].content
                      ELSE "system" \notin DOMAIN calls[i].payload

C21_Witness ==
    /\ Len(calls) = 2
    /\ calls[1].provider = ANTHROPIC
    /\ calls[2].provider = OPENROUTER
    /\ messages = << Msg("user", "Hi"), Msg("system", "Be brief."),
                     Msg("assistant", "Hello.") >>
    /\ calls[1].payload.system = "Be brief."
    /\ Len(calls[1].payload.messages) = 2

(* ============ subscription_tiers.SubscriptionManager (C22) ============= *)
(* --------------------------- SubscriptionTier -------------------------- *)
MINOR_ACTIONS == "minor_actions"
REGULAR_PLAN == "regular_plan"
EXCLUSIVE_ACTIONS == "exclusive_actions"
BIG_BOSS_ASSISTANT == "big_boss_assistant"
\* the members of the enum, in definition order
SubscriptionTier == << MINOR_ACTIONS, REGULAR_PLAN, EXCLUSIVE_ACTIONS, BIG_BOSS_ASSISTANT >>
TierSet == {SubscriptionTier[i] : i \in 1..Len(SubscriptionTier)}

\* `x in list`
In(x, list) == \E i \in 1..Len(list) : list[i] = x

\* the fields of TierConfiguration that the manager's methods read
TierConfiguration(name, price_monthly, credits_per_month, action_types) ==
    [name |-> name, price_monthly |-> price_monthly,
     credits_per_month |-> credits_per_month, action_types |-> action_types]

\* the action_types of the Big Boss tier
BigBossActions ==
    << "project_delegation", "team_coordination", "strategic_analysis",
       "ai_decision_making", "enterprise_workflow", "custom_integration",
       "advanced_analytics", "business_intelligence" >>

_initialize_tiers ==
    [t \in TierSet |->
        CASE t = MINOR_ACTIONS ->
               TierConfiguration("Minor Actions Plan", 9, 100,
                   << "click", "type", "screenshot", "open_application",
                      "browse_url", "scroll", "key_press" >>)
          [] t = REGULAR_PLAN ->
               TierConfiguration("Regular Plan", 29, 500,
                   << "click", "type", "screenshot", "open_application", "browse_url",
                      "file_operation", "email_management", "calendar_event",
                      "document_edit", "web_research", "data_extraction" >>)
          [] t = EXCLUSIVE_ACTIONS ->
               TierConfiguration("Exclusive Actions Plan", 79, 2000,
                   << "click", "type", "screenshot", "open_application", "browse_url",
                      "file_operation", "email_management", "calendar_event",
                      "document_edit", "web_research", "data_extraction",
                      "multi_app_workflow", "data_sync", "automated_reporting",
                      "complex_integration", "batch_processing" >>)
          [] t = BIG_BOSS_ASSISTANT ->
               TierConfiguration("Big Boss Assistant Plan", 199, 10000, BigBossActions)]

tiers == _initialize_tiers

\* the first tier, lowest first, whose list has the action; the highest when none has
_find_minimum_tier_for_action(action_type) ==
    LET having == {i \in 1..Len(SubscriptionTier) :
                      In(action_type, tiers[SubscriptionTier[i]].action_types)}
    IN IF having = {} THEN BIG_BOSS_ASSISTANT
       ELSE SubscriptionTier[CHOOSE i \in having : \A j \in having : i <= j]

costs ==
    [t \in TierSet |->
        CASE t = MINOR_ACTIONS -> 1
          [] t = REGULAR_PLAN -> 5
          [] t = EXCLUSIVE_ACTIONS -> 15
          [] t = BIG_BOSS_ASSISTANT -> 50]

_calculate_credits_for_action(action_type) ==
    costs[_find_minimum_tier_for_action(action_type)]

\* get_user_subscription: is there a row for the username
UserFound(username) == username \in DOMAIN users

\* can_execute_action on the current tables
can_execute_action(username, action_type) ==
    IF ~UserFound(username)
    THEN [allowed |-> FALSE, reason |-> "User not found"]
    ELSE LET user == users[username]
             tier == user.subscription_tier
             tier_config == tiers[tier]
             required_tier == _find_minimum_tier_for_action(action_type)
             credits_needed == _calculate_credits_for_action(action_type)
         IN IF user.expired
            THEN [allowed |-> FALSE, reason |-> "Subscription expired"]
            ELSE IF ~In(action_type, tier_config.action_types)
            THEN [allowed |-> FALSE, reason |-> "Action requires tier",
                  current_tier |-> tier, required_tier |-> required_tier,
                  upgrade_price |-> tiers[required_tier].price_monthly]
            ELSE IF user.credits_remaining < credits_needed
            THEN [allowed |-> FALSE, reason |-> "Insufficient credits",
                  credits_needed |-> credits_needed,
                  credits_remaining |-> user.credits_remaining]
            ELSE [allowed |-> TRUE, credits_cost |-> credits_needed,
                  credits_remaining_after |-> user.credits_remaining - credits_needed]

(* ------------------------------- inputs -------------------------------- *)
\* the usernames asked about; the one of them that signs up
Usernames == {"alice", "bob"}
Signups == {"alice"}
\* action types given to the manager: one that only Minor lists, one that the
\* three lower tiers list, one of each higher tier, and one that no tier lists
TierActionTypes ==
    {"scroll", "click", "file_operation", "multi_app_workflow",
     "project_delegation", "fly"}
\* (subscription_end - now).days at an upgrade: negative once the
\* subscription has ended, at most 29 while it runs
DaysRemaining == {-1, 0, 29}

\* the state the subscription manager's actions leave alone
NotTiers == <<aivars, orchvars, controlvars, voicevars, assistantvars, hybridvars,
              progressvars>>

(* ------------------------------- actions ------------------------------- *)
\* create_user; username is UNIQUE, so a second INSERT raises and changes nothing
create_user(username, tier) ==
    /\ ~UserFound(username)
    /\ Len(subscription_history) < MaxHistory
    /\ LET tier_config == tiers[tier]
           user_id == Cardinality(DOMAIN users) + 1
       IN /\ users' = users @@ (username :>
                 [id |-> user_id, subscription_tier |-> tier,
                  credits_remaining |-> tier_config.credits_per_month,
                  credits_total |-> tier_config.credits_per_month,
                  expired |-> FALSE])
          /\ subscription_history' = Append(subscription_history,
                 [user_id |-> user_id, tier_from |-> None, tier_to |-> tier,
                  price_paid |-> tier_config.price_monthly,
                  credits_added |-> tier_config.credits_per_month,
                  change_reason |-> "Initial subscription"])
    /\ UNCHANGED <<usage_log, permission, NotTiers>>

\* time passes subscription_end: datetime.now() > end_date from now on
SubscriptionEnds(username) ==
    /\ UserFound(username)
    /\ ~users[username].expired
    /\ users' = [users EXCEPT ![username].expired = TRUE]
    /\ UNCHANGED <<usage_log, subscription_history, permission, NotTiers>>

\* a caller asks can_execute_action
CanExecuteAction(username, action_type) ==
    /\ permission' = [call |-> "can_execute_action", username |-> username,
                      action_type |-> action_type,
                      result |-> can_execute_action(username, action_type)]
    /\ UNCHANGED <<users, usage_log, subscription_history, NotTiers>>

\* execute_action: deduct the credits and log the usage, or return False
execute_action(username, action_type) ==
    /\ Len(usage_log) < MaxUsage
    /\ LET perm == can_execute_action(username, action_type)
       IN /\ permission' = [call |-> "execute_action", username |-> username,
                            action_type |-> action_type, result |-> perm]
          /\ IF ~perm.allowed
             THEN UNCHANGED <<users, usage_log>>
             ELSE /\ users' = [users EXCEPT ![username].credits_remaining =
                                                @ - perm.credits_cost]
                  /\ usage_log' = Append(usage_log,
                         [user_id |-> users[username].id, action_type |-> action_type,
                          credits_used |-> perm.credits_cost,
                          tier_required |-> _find_minimum_tier_for_action(action_type),
                          success |-> TRUE])
    /\ UNCHANGED <<subscription_history, NotTiers>>

\* upgrade_subscription: any tier may be given; the credits of the new tier
\* are added, prorated by the days that remain
upgrade_subscription(username, new_tier, days_remaining) ==
    /\ UserFound(username)
    /\ users[username].expired <=> days_remaining < 0
    /\ Len(subscription_history) < MaxHistory
    /\ LET user == users[username]
           new_tier_config == tiers[new_tier]
           additional_credits ==
               IF days_remaining > 0
               THEN (new_tier_config.credits_per_month * days_remaining) \div 30
               ELSE new_tier_config.credits_per_month
       IN /\ users' = [users EXCEPT ![username] =
                 [@ EXCEPT !.subscription_tier = new_tier,
                           !.credits_remaining = @ + additional_credits,
                           !.credits_total = new_tier_config.credits_per_month,
                           !.expired = FALSE]]
          /\ subscription_history' = Append(subscription_history,
                 [user_id |-> user.id, tier_from |-> user.subscription_tier,
                  tier_to |-> new_tier, price_paid |-> new_tier_config.price_monthly,
                  credits_added |-> additional_credits, change_reason |-> "Upgrade"])
    /\ UNCHANGED <<usage_log, permission, NotTiers>>

TierInit == ProviderIdle /\ OthersIdle

TierNext ==
    \/ \E u \in Signups, t \in TierSet : create_user(u, t)
    \/ \E u \in Usernames : SubscriptionEnds(u)
    \/ \E u \in Usernames, a \in TierActionTypes :
          CanExecuteAction(u, a)
    \/ \E u \in Usernames, a \in TierActionTypes :
          execute_action(u, a)
    \/ \E u \in Usernames, t \in TierSet, d \in DaysRemaining :
          upgrade_subscription(u, t, d)

TierSpec == TierInit /\ [][TierNext]_vars

\* the position of a tier in the enum
TierIndex(t) == CHOOSE i \in 1..Len(SubscriptionTier) : SubscriptionTier[i] = t

\* C22: the manager never refuses an action for the tier of a user when a
\* tier at or below the user's lists that action.
C22_TiersCumulative ==
    (/\ permission.call # "none"
     /\ ~permission.result.allowed
     /\ permission.result.reason = "Action requires tier")
    => ~\E i \in 1..TierIndex(permission.result.current_tier) :
            In(permission.action_type, tiers[SubscriptionTier[i]].action_types)

(* ====== unified_execution_orchestrator: credits under concurrency (C23) ===== *)
\* SubscriptionManager.tiers of this module: the cost of an action of each tier
cost_credits ==
    [t \in TierSet |->
        CASE t = MINOR_ACTIONS -> 1
          [] t = REGULAR_PLAN -> 5
          [] t = EXCLUSIVE_ACTIONS -> 15
          [] t = BIG_BOSS_ASSISTANT -> 50]

\* ActionClassifier.classify_action
classify_action(action_type) ==
    IF action_type \in {"screenshot", "click", "type", "key_press", "scroll",
                        "move_mouse", "open_application"}
    THEN MINOR_ACTIONS
    ELSE IF action_type \in {"file_operation", "email_management", "calendar_event",
                             "document_edit", "web_research", "data_extraction"}
    THEN REGULAR_PLAN
    ELSE IF action_type \in {"multi_app_workflow", "data_sync", "automated_reporting",
                             "complex_integration", "batch_processing"}
    THEN EXCLUSIVE_ACTIONS
    ELSE BIG_BOSS_ASSISTANT

\* SubscriptionManager.can_execute_action of this module, on the current credits
Orch_can_execute_action(complexity) ==
    LET user_tier_value == TierIndex(user_subscription)
        required_tier_value == TierIndex(complexity)
        can_execute == user_tier_value >= required_tier_value
        has_credits == user_credits >= cost_credits[complexity]
    IN can_execute /\ has_credits

Max(a, b) == IF a >= b THEN a ELSE b

\* SubscriptionManager.deduct_credits: the new value of user_credits
deduct_credits(complexity) == Max(0, user_credits - cost_credits[complexity])

(* ------------------------------- inputs -------------------------------- *)
Personas == {"banks", "bella"}
\* action types that _extract_actions_from_ai_response produces: one classified
\* Minor, one classified Big Boss (browse_url is in no list of the classifier)
OrchActionTypes == {"click", "browse_url"}
OrchActionLists == SeqsUpTo(OrchActionTypes, MaxActions)

NotOrch == <<aivars, tiervars, controlvars, voicevars, assistantvars, hybridvars,
             progressvars>>

\* the loop of process_user_request reaches the next action: classify it and
\* check the subscription; a refused action is not executed, and its result
\* goes to the memory store like any other
NextAction(persona, actions) ==
    IF actions = << >> THEN IdleRequest
    ELSE LET complexity == classify_action(Head(actions))
         IN [pc |-> IF Orch_can_execute_action(complexity)
                    THEN "await_execute" ELSE "await_store",
             persona |-> persona, actions |-> actions, complexity |-> complexity]

(* ------------------------------- actions ------------------------------- *)
\* process_user_request is called: it awaits the AI's reading of the message
process_user_request(t, persona) ==
    /\ requests[t].pc = "idle"
    /\ requests' = [requests EXCEPT ![t] = [IdleRequest EXCEPT !.pc = "await_ai",
                                                              !.persona = persona]]
    /\ UNCHANGED <<user_subscription, user_credits, executed_cost, NotOrch>>

\* the AI's response arrives with these actions in it: none (guidance is
\* returned), or the first is classified and checked
AIResponse(t, actions) ==
    /\ requests[t].pc = "await_ai"
    /\ requests' = [requests EXCEPT ![t] = NextAction(requests[t].persona, actions)]
    /\ UNCHANGED <<user_subscription, user_credits, executed_cost, NotOrch>>

\* chat_with_claude_mcp raises: the except clause returns the error
AIRaises(t) ==
    /\ requests[t].pc = "await_ai"
    /\ requests' = [requests EXCEPT ![t] = IdleRequest]
    /\ UNCHANGED <<user_subscription, user_credits, executed_cost, NotOrch>>

\* _execute_action returns to _banks_execution / _bella_execution: credits are
\* deducted when the result says success; then the result is stored
ExecuteReturns(t, success) ==
    /\ requests[t].pc = "await_execute"
    /\ IF success
       THEN /\ user_credits' = deduct_credits(requests[t].complexity)
            /\ executed_cost' = executed_cost + cost_credits[requests[t].complexity]
       ELSE UNCHANGED <<user_credits, executed_cost>>
    /\ requests' = [requests EXCEPT ![t].pc = "await_store"]
    /\ UNCHANGED <<user_subscription, NotOrch>>

\* _store_execution_memory returns (its own failures are caught inside it):
\* the loop goes on with the next action or the request returns
StoreReturns(t) ==
    /\ requests[t].pc = "await_store"
    /\ requests' = [requests EXCEPT ![t] =
                       NextAction(requests[t].persona, Tail(requests[t].actions))]
    /\ UNCHANGED <<user_subscription, user_credits, executed_cost, NotOrch>>

OrchInit == ProviderIdle /\ OthersIdle

OrchNext ==
    \/ \E t \in RequestTasks, persona \in Personas : process_user_request(t, persona)
    \/ \E t \in RequestTasks, actions \in OrchActionLists : AIResponse(t, actions)
    \/ \E t \in RequestTasks : AIRaises(t)
    \/ \E t \in RequestTasks, success \in BOOLEAN : ExecuteReturns(t, success)
    \/ \E t \in RequestTasks : StoreReturns(t)

OrchSpec == OrchInit /\ [][OrchNext]_vars

\* C23: an action is in execution only with the tier it needs, every
\* executed action has taken exactly its cost from user_credits, which is
\* never negative, and the executed actions cost no more than the initial
\* credits, whatever the interleaving.
C23_CreditsAccounted ==
    /\ \A t \in RequestTasks :
          requests[t].pc = "await_execute" =>
              TierIndex(user_subscription) >= TierIndex(requests[t].complexity)
    /\ user_credits >= 0
    /\ user_credits = 1000 - executed_cost
    /\ executed_cost <= 1000

(* ======== computer_control_integration.operate_computer_system (C24) ======== *)
\* A command string is a sequence of pieces: a prefix ("system:"), a blank
\* (" ") or a word.  The string operations work on the pieces as Python's
\* work on the characters.
Join(pieces) ==
    LET RECURSIVE J(_)
        J(ps) == IF ps = << >> THEN "" ELSE Head(ps) \o J(Tail(ps))
    IN J(pieces)

\* str.startswith(prefix)
StartsWith(command, prefix) == Len(command) > 0 /\ command[1] = prefix

\* str.replace(prefix, ""): every occurrence goes, not only the leading one
Replace(command, prefix) ==
    LET Keep(piece) == piece # prefix
    IN SelectSeq(command, Keep)

\* str.strip()
Strip(command) ==
    LET nonblank == {i \in 1..Len(command) : command[i] # " "}
    IN IF nonblank = {} THEN << >>
       ELSE SubSeq(command, CHOOSE i \in nonblank : \A j \in nonblank : i <= j,
                            CHOOSE i \in nonblank : \A j \in nonblank : j <= i)

\* command.replace(prefix, "").strip(), as one string
Argument(command, prefix) == Join(Strip(Replace(command, prefix)))

\* str.split("|")
Split(command) ==
    LET RECURSIVE S(_, _)
        S(ps, cur) == IF ps = << >> THEN << cur >>
                      ELSE IF Head(ps) = "|" THEN << cur >> \o S(Tail(ps), << >>)
                      ELSE S(Tail(ps), Append(cur, Head(ps)))
    IN S(command, << >>)

\* str.lower() on the application names used
Lower(name) ==
    CASE name = "Chrome" -> "chrome"
      [] name = "VSCode" -> "vscode"
      [] name = "Hey" -> "hey"
      [] name = "Banks" -> "banks"
      [] name = "BELLA" -> "bella"
      [] OTHER -> name

\* a handler that was entered and the program it started, << >> when none
Handler(name, argv) == [handler |-> name, argv |-> argv]
Outcome(handlers, result) == [executed |-> handlers, result |-> result]
Failure(error) == [success |-> FALSE, error |-> error]

safe_commands ==
    [c \in {"wifi_status", "memory_usage", "disk_usage", "process_list", "system_info"} |->
        CASE c = "wifi_status" -> << "networksetup", "-getairportnetwork", "en0" >>
          [] c = "memory_usage" -> << "vm_stat" >>
          [] c = "disk_usage" -> << "df", "-h" >>
          [] c = "process_list" -> << "ps", "aux" >>
          [] c = "system_info" -> << "sw_vers" >>]

\* execute_system_command; ran_ok: the program exits with status 0
execute_system_command(command, ran_ok) ==
    IF command \in DOMAIN safe_commands
    THEN Outcome(<< Handler("execute_system_command", safe_commands[command]) >>,
                 IF ran_ok
                 THEN [success |-> TRUE, action |-> "system_command", command |-> command]
                 ELSE Failure("System command failed"))
    ELSE Outcome(<< Handler("execute_system_command", << >>) >>,
                 Failure("Command not in safe list"))

browse_url(url) ==
    Outcome(<< Handler("browse_url", << "webbrowser.open", url >>) >>,
            [success |-> TRUE, action |-> "browse", url |-> url])

search_web(query) ==
    Outcome(<< Handler("search_web", << "webbrowser.open", query >>) >>,
            [success |-> TRUE, action |-> "search", query |-> query])

open_application(app_name, ran_ok) ==
    LET app == CASE Lower(app_name) \in {"vscode", "code"} -> "Visual Studio Code"
                 [] Lower(app_name) = "terminal" -> "Terminal"
                 [] Lower(app_name) = "finder" -> "Finder"
                 [] Lower(app_name) = "chrome" -> "Google Chrome"
                 [] Lower(app_name) = "safari" -> "Safari"
                 [] OTHER -> app_name
    IN Outcome(<< Handler("open_application", << "open", "-a", app >>) >>,
               IF ran_ok THEN [success |-> TRUE, action |-> "open_app", app |-> app_name]
               ELSE Failure("Failed to open"))

handle_file_operation(file_cmd, ran_ok) ==
    LET parts == Split(file_cmd)
        operation == Join(Strip(parts[1]))
        path == IF Len(parts) > 1 THEN Join(Strip(parts[2])) ELSE ""
    IN IF operation = "open" /\ path # ""
       THEN Outcome(<< Handler("handle_file_operation", << "open", path >>) >>,
                    IF ran_ok THEN [success |-> TRUE, action |-> "file_open", path |-> path]
                    ELSE Failure("File operation failed"))
       ELSE IF operation = "show" /\ path # ""
       THEN Outcome(<< Handler("handle_file_operation", << "open", "-R", path >>) >>,
                    IF ran_ok THEN [success |-> TRUE, action |-> "file_show", path |-> path]
                    ELSE Failure("File operation failed"))
       ELSE Outcome(<< Handler("handle_file_operation", << >>) >>,
                    Failure("Unknown file operation"))

handle_agent_operation(agent_cmd) ==
    Outcome(<< Handler("handle_agent_operation", << >>) >>,
            IF Join(agent_cmd) = "status" THEN [success |-> TRUE, action |-> "agent_status"]
            ELSE IF Join(agent_cmd) = "deploy" THEN [success |-> TRUE, action |-> "agent_deploy"]
            ELSE IF StartsWith(agent_cmd, "switch_persona:")
            THEN [success |-> TRUE, action |-> "switch_persona",
                  persona |-> Argument(agent_cmd, "switch_persona:")]
            ELSE Failure("Unknown agent operation"))

process_command(command) ==
    Outcome(<< Handler("process_command", << >>) >>,
            [success |-> TRUE, action |-> "process", command |-> Join(command)])

required_permissions == {"execute"}

\* all(perm in user["permissions"] for perm in required_permissions)
HasRequired(user) == \A perm \in required_permissions : perm \in user.permissions

\* the dispatch without the admin test of the system branch
operate_computer_system_noadmin(command, user, ran_ok) ==
    IF ~HasRequired(user)
    THEN Outcome(<< >>, Failure("lacks required permissions"))
    ELSE IF StartsWith(command, "system:")
    THEN execute_system_command(Argument(command, "system:"), ran_ok)
    ELSE process_command(command)

\* operate_computer_system: what it enters and what it returns
operate_computer_system(command, user, ran_ok) ==
    IF ~HasRequired(user)
    THEN Outcome(<< >>, Failure("lacks required permissions"))
    ELSE IF StartsWith(command, "browse:")
    THEN browse_url(Argument(command, "browse:"))
    ELSE IF StartsWith(command, "search:")
    THEN search_web(Argument(command, "search:"))
    ELSE IF StartsWith(command, "system:")
    THEN IF "admin" \in user.permissions
         THEN execute_system_command(Argument(command, "system:"), ran_ok)
         ELSE Outcome(<< >>, Failure("Insufficient permissions for system commands"))
    ELSE IF StartsWith(command, "app:")
    THEN open_application(Argument(command, "app:"), ran_ok)
    ELSE IF StartsWith(command, "file:")
    THEN handle_file_operation(Strip(Replace(command, "file:")), ran_ok)
    ELSE IF StartsWith(command, "agent:")
    THEN handle_agent_operation(Strip(Replace(command, "agent:")))
    ELSE process_command(command)

(* ------------------------------- inputs -------------------------------- *)
ControlUsers ==
    {[username |-> "developer", permissions |-> ps] :
        ps \in SUBSET {"execute", "admin", "read"}}

\* commands of every type, with blanks, with a repeated prefix, with a
\* prefix that is not at the start, and system commands off the safe list
ControlCommands ==
    { << "system:", "wifi_status" >>, << "system:", " ", "memory_usage", " " >>,
      << "system:", "rm -rf /" >>, << "system:" >>,
      << "system:", "system:", "disk_usage" >>,
      << "system:", "disk_", "system:", "usage" >>,
      << " ", "system:", "process_list" >>,
      << "browse:", "https://github.com" >>, << "browse:", "system:", "wifi_status" >>,
      << "search:", "Agent-Banks" >>,
      << "app:", "VSCode" >>, << "app:", "Notes" >>,
      << "file:", "open", "|", "/tmp/a" >>, << "file:", "show", "|", " ", "/tmp/a" >>,
      << "file:", "delete", "|", "/tmp/a" >>, << "file:", "open" >>,
      << "agent:", "status" >>, << "agent:", "switch_persona:", "bella" >>,
      << "agent:", "stop" >>,
      << "memory_usage" >>, << >> }

NotControl == <<aivars, tiervars, orchvars, voicevars, assistantvars, hybridvars,
                progressvars>>

\* one call of operate_computer_system
OperateComputerSystem(command, user, ran_ok) ==
    /\ command_call' = [command |-> command, user |-> user]
    /\ executed' = operate_computer_system(command, user, ran_ok).executed
    /\ command_result' = operate_computer_system(command, user, ran_ok).result
    /\ UNCHANGED NotControl

ControlInit == ProviderIdle /\ OthersIdle

ControlNext ==
    \E command \in ControlCommands, user \in ControlUsers, ran_ok \in BOOLEAN :
        OperateComputerSystem(command, user, ran_ok)

ControlSpec == ControlInit /\ [][ControlNext]_vars

\* the call was made
Called == command_result # NoneObj
\* the programs the call started
Started == {i \in 1..Len(executed) : executed[i].argv # << >>}
\* the argument lists of the fixed safe commands
SafeArgvs ==
    { << "networksetup", "-getairportnetwork", "en0" >>, << "vm_stat" >>,
      << "df", "-h" >>, << "ps", "aux" >>, << "sw_vers" >> }
IsSystemCommand == Len(command_call.command) > 0 /\ command_call.command[1] = "system:"

\* C24: without 'execute' no handler is entered; a system command starts a
\* program only for a user with 'admin' too and only a program of the safe
\* list; a call that is refused returns success=False and starts nothing.
C24_PermissionsGate ==
    Called =>
        /\ "execute" \notin command_call.user.permissions =>
              executed = << >> /\ command_result.success = FALSE
        /\ IsSystemCommand =>
              /\ \A i \in 1..Len(executed) : executed[i].handler = "execute_system_command"
              /\ \A i \in Started :
                    /\ {"execute", "admin"} \subseteq command_call.user.permissions
                    /\ executed[i].argv \in SafeArgvs
              /\ "admin" \notin command_call.user.permissions =>
                    executed = << >> /\ command_result.success = FALSE
              /\ Started = {} => command_result.success = FALSE

\* an admin's system command of the safe list, written with blanks, ran
C24_Witness ==
    /\ command_call.command = << "system:", " ", "memory_usage", " " >>
    /\ command_call.user.permissions = {"execute", "admin"}
    /\ executed = << Handler("execute_system_command", << "vm_stat" >>) >>
    /\ command_result.success = TRUE

(* ============== meeting_assistant.VoiceFallbackManager (C25) ============ *)
\* _select_best_tts
_select_best_tts(elevenlabs, openai, desktop) ==
    IF elevenlabs THEN "elevenlabs"
    ELSE IF openai THEN "openai"
    ELSE IF desktop THEN "desktop"
    ELSE "text_only"

\* one use of a channel by speak and whether the text came out through it
Channel(name, ok) == [channel |-> name, ok |-> ok]
Spoke(channels, result) == [spoken |-> channels, result |-> result]

\* _speak_elevenlabs, _speak_openai: any exception of the backend is caught
\* inside and False is returned
_speak_backend(name, works) == Spoke(<< Channel(name, works[name]) >>, works[name])

\* _speak_desktop
_speak_desktop(works) ==
    IF desktop_tts THEN Spoke(<< Channel("desktop", works.desktop) >>, works.desktop)
    ELSE Spoke(<< >>, FALSE)

\* speak: no call in its try block raises an Exception (each _speak_* has
\* caught its own), so its except clause with the cascade is never entered
speak(fallback_to_text, works) ==
    IF current_tts_mode = "elevenlabs" THEN _speak_backend("elevenlabs", works)
    ELSE IF current_tts_mode = "openai" THEN _speak_backend("openai", works)
    ELSE IF current_tts_mode = "desktop" THEN _speak_desktop(works)
    ELSE IF fallback_to_text THEN Spoke(<< Channel("text", TRUE) >>, TRUE)
    ELSE Spoke(<< >>, FALSE)

(* ------------------------------- inputs -------------------------------- *)
\* values of ELEVENLABS_API_KEY and OPENAI_API_KEY
VoiceKeys == {None, "", "sk-1"}
\* which backends work when they are used: the call does not raise
Works == [{"elevenlabs", "openai", "desktop"} -> BOOLEAN]

NotVoice == <<aivars, tiervars, orchvars, controlvars, assistantvars, hybridvars,
              progressvars>>

(* ------------------------------- actions ------------------------------- *)
\* VoiceFallbackManager.__init__; engine: pyttsx3.init() gives an engine
VoiceInit(elevenlabs_key, openai_key, engine) ==
    /\ current_tts_mode = None
    /\ elevenlabs_available' = Truthy(elevenlabs_key)
    /\ openai_tts_available' = Truthy(openai_key)
    /\ desktop_tts' = engine
    /\ current_tts_mode' = _select_best_tts(elevenlabs_available', openai_tts_available',
                                            desktop_tts')
    /\ UNCHANGED <<speak_call, spoken, speak_result, NotVoice>>

\* one call of speak
Speak(fallback_to_text, works) ==
    /\ current_tts_mode # None
    /\ speak_call' = [fallback_to_text |-> fallback_to_text, works |-> works]
    /\ spoken' = speak(fallback_to_text, works).spoken
    /\ speak_result' = speak(fallback_to_text, works).result
    /\ UNCHANGED <<elevenlabs_available, openai_tts_available, desktop_tts,
                   current_tts_mode, NotVoice>>

VoiceSpecInit == ProviderIdle /\ OthersIdle

VoiceNext ==
    \/ \E elevenlabs_key \in VoiceKeys, openai_key \in VoiceKeys, engine \in BOOLEAN :
          VoiceInit(elevenlabs_key, openai_key, engine)
    \/ \E fallback_to_text \in BOOLEAN, works \in Works : Speak(fallback_to_text, works)

VoiceSpec == VoiceSpecInit /\ [][VoiceNext]_vars

\* the text came out through this channel
Through(name) == \E i \in 1..Len(spoken) : spoken[i].channel = name /\ spoken[i].ok
\* the selected backend was used and failed
SelectedFailed ==
    /\ current_tts_mode \in {"elevenlabs", "openai"}
    /\ ~speak_call.works[current_tts_mode]

\* C25: when the selected backend fails and there is a desktop engine the
\* text is spoken through it; when no voice backend works and
\* fallback_to_text is True the text is printed and speak returns True; with
\* fallback_to_text=True speak never returns False.
C25_SpeakFallsBack ==
    speak_call # NoneObj =>
        /\ (SelectedFailed /\ desktop_tts /\ speak_call.works.desktop) =>
              Through("desktop") /\ speak_result = TRUE
        /\ (speak_call.fallback_to_text
              /\ ~Through("elevenlabs") /\ ~Through("openai") /\ ~Through("desktop")) =>
              Through("text") /\ speak_result = TRUE
        /\ speak_call.fallback_to_text => speak_result # FALSE

(* ======= MultiAIProvider.process_message and the personas (C26) ========= *)
\* _initialize_personas, in the order of the dict; greeting and system_prompt
\* stand for the texts
Phrase(a, b) == << a, " ", b >>
personas ==
    << [persona |-> "banks", name |-> "Banks",
        wake_words |-> << << "banks" >>, Phrase("agent", "banks"), Phrase("hey", "banks") >>,
        greeting |-> "Banks here.", system_prompt |-> "You are Banks." ],
       [persona |-> "bella", name |-> "Bella",
        wake_words |-> << << "bella" >>, Phrase("hey", "bella"), Phrase("hi", "bella") >>,
        greeting |-> "Hi! I'm Bella.", system_prompt |-> "You are Bella." ] >>
PersonaNames == {personas[i].persona : i \in 1..Len(personas)}
PersonaInfo(persona_name) ==
    personas[CHOOSE i \in 1..Len(personas) : personas[i].persona = persona_name]

\* message.lower(), piece by piece
LowerAll(message) == [i \in 1..Len(message) |-> Lower(message[i])]

\* `wake_word in message_lower`: the pieces of the wake word in a row
Contains(message_lower, wake_word) ==
    \E k \in 0..(Len(message_lower) - Len(wake_word)) :
        \A j \in 1..Len(wake_word) : message_lower[k + j] = wake_word[j]

HasWakeWord(message_lower, i) ==
    \E w \in 1..Len(personas[i].wake_words) :
        Contains(message_lower, personas[i].wake_words[w])

\* a detection that prefers a persona other than the current one
detect_persona_other(message) ==
    LET message_lower == LowerAll(message)
        found == {i \in 1..Len(personas) : HasWakeWord(message_lower, i)}
        other == {i \in found : personas[i].persona # current_persona}
    IN IF other # {} THEN personas[CHOOSE i \in other : \A j \in other : i <= j].persona
       ELSE current_persona

\* detect_persona: the first persona of the dict with a wake word in the
\* message, the current persona when there is none
detect_persona(message) ==
    LET message_lower == LowerAll(message)
        found == {i \in 1..Len(personas) : HasWakeWord(message_lower, i)}
    IN IF found # {} THEN personas[CHOOSE i \in found : \A j \in found : i <= j].persona
       ELSE current_persona

\* chat_completion run to its end on the object as it is: its outcome and the
\* requests it posted, given what the network answers to the first and to
\* the second request
chat_completion(msgs, kw, resp1, resp2) ==
    LET first == _call_provider(current_provider, resp1)
        fallback_provider == _get_fallback_provider
        second == _call_provider(fallback_provider, resp2)
    IN IF first.ok
       THEN [outcome |-> Returned(first.value),
             calls |-> << Request(current_provider, msgs, kw) >>]
       ELSE IF fallback_provider = None
       THEN [outcome |-> AllFailed(first.error),
             calls |-> << Request(current_provider, msgs, kw) >>]
       ELSE [outcome |-> IF second.ok THEN Returned(second.value)
                         ELSE AllFailed(first.error),
             calls |-> << Request(current_provider, msgs, kw),
                          Request(fallback_provider, msgs, kw) >>]

\* the strings process_message returns
Text(kind, content) == [kind |-> kind, content |-> content]
Apology == Text("apology", "I apologize, but I couldn't generate a response.")
ErrorText(e) == Text("error", e)

\* response["choices"][0]["message"]["content"] behind the test of the
\* response, or the KeyError it raises
ExtractText(response) ==
    IF DOMAIN response # {} /\ "choices" \in DOMAIN response /\ Len(response.choices) > 0
    THEN IF "message" \notin DOMAIN response.choices[1]
         THEN ErrorText("'message'")
         ELSE IF "content" \notin DOMAIN response.choices[1].message
         THEN ErrorText("'content'")
         ELSE Text("reply", response.choices[1].message.content)
    ELSE Apology

\* process_message on a str: the new current_persona, the string returned,
\* the requests posted and the number of chat_completion calls
process_message(message, resp1, resp2) ==
    LET detected_persona == detect_persona(message)
        persona_info == PersonaInfo(detected_persona)
        msgs == << Msg("system", persona_info.system_prompt),
                   Msg("user", Join(message)) >>
        chat == chat_completion(msgs, << >>, resp1, resp2)
    IN IF detected_persona # current_persona
       THEN [current_persona |-> detected_persona,
             returned |-> Text("switched", persona_info.greeting),
             calls |-> << >>, chat_completions |-> 0]
       ELSE [current_persona |-> current_persona,
             returned |-> IF chat.outcome.kind = "return"
                          THEN ExtractText(chat.outcome.value)
                          ELSE ErrorText(chat.outcome.exc),
             calls |-> chat.calls, chat_completions |-> 1]

(* ------------------------------- inputs -------------------------------- *)
\* messages without a wake word, with one in capitals, with a phrase, with
\* the wake words of both personas in either order, and one inside a word
ChatMessages ==
    { << "what", " ", "time" >>, << >>, << "Hey", " ", "Banks" >>, << "BELLA" >>,
      << "hi", " ", "bella" >>, << "banks", " ", "ask", " ", "bella" >>,
      << "bella", " ", "ask", " ", "banks" >>, << "river", "banks" >> }
\* what the network answers to a request of the assistant
ChatResponses ==
    {[exc |-> "ClientConnectorError", status |-> 0, body |-> ""],
     [exc |-> None, status |-> 200, body |-> "anthropic_ok"],
     [exc |-> None, status |-> 200, body |-> "openai_ok"],
     [exc |-> None, status |-> 200, body |-> "error_obj"],
     [exc |-> None, status |-> 500, body |-> "error_obj"]}

NotAssistant == <<tiervars, orchvars, controlvars, voicevars, hybridvars, progressvars>>
ProviderObject == <<env, obj, providers, current_provider>>
Invocation == <<pc, messages, kwargs, calls, log, replies, primary_error, outcome, inv>>

(* ------------------------------- actions ------------------------------- *)
\* one call of process_message; it blocks in run_until_complete until
\* chat_completion is done, and every Exception is turned into a string
ProcessMessage(message, resp1, resp2) ==
    /\ obj = "ready"
    /\ pc = "idle"
    /\ message_call' = [message |-> message, current_persona |-> current_persona]
    /\ current_persona' = process_message(message, resp1, resp2).current_persona
    /\ message_result' = [r \in {"returned", "calls", "chat_completions"} |->
                             process_message(message, resp1, resp2)[r]]
    /\ UNCHANGED <<conversation_history, assistant_result, ProviderObject, Invocation,
                   NotAssistant>>

MessageNext ==
    \/ Construct
    \/ \E message \in ChatMessages, resp1 \in ChatResponses, resp2 \in ChatResponses :
          ProcessMessage(message, resp1, resp2)

MessageSpec == Init /\ [][MessageNext]_vars

\* the personas with a wake word in the message of the last call
WakeWordOf(persona_name) ==
    \E i \in 1..Len(personas) :
        /\ personas[i].persona = persona_name
        /\ HasWakeWord(LowerAll(message_call.message), i)
\* the first of them in the order of the dict, None when there is none
FirstWoken ==
    IF \A q \in PersonaNames : ~WakeWordOf(q) THEN None
    ELSE IF WakeWordOf("banks") THEN "banks" ELSE "bella"

\* what holds of every call whatever the detection chose
MessageSafe ==
    /\ current_persona \in PersonaNames
    /\ message_result # NoneObj =>
          /\ message_result.chat_completions <= 1
          /\ message_result.returned.kind \in {"switched", "reply", "apology", "error"}
          /\ message_result.returned.kind = "switched" =>
                /\ message_result.calls = << >>
                /\ message_result.chat_completions = 0
                /\ message_result.returned.content = PersonaInfo(current_persona).greeting
          /\ message_result.returned.kind # "switched" =>
                current_persona = message_call.current_persona

\* C26 as stated: a wake word of any persona other than the current one
\* makes the call switch to that persona.
C26_Original ==
    /\ MessageSafe
    /\ message_result # NoneObj =>
          \A q \in PersonaNames :
              (q # message_call.current_persona /\ WakeWordOf(q)) =>
                  /\ current_persona = q
                  /\ message_result.returned.kind = "switched"

\* C26 (amended): the call switches exactly when the first persona of the
\* dict (banks, then bella) that has a wake word in the message is not the
\* current one, and then to that persona; otherwise current_persona stays and
\* the reply or an error string is returned after one chat_completion call.
C26_ProcessMessage ==
    /\ MessageSafe
    /\ message_result # NoneObj =>
          IF FirstWoken # None /\ FirstWoken # message_call.current_persona
          THEN /\ current_persona = FirstWoken
               /\ message_result.returned.kind = "switched"
          ELSE /\ current_persona = message_call.current_persona
               /\ message_result.returned.kind # "switched"
               /\ message_result.chat_completions = 1
               /\ Len(message_result.calls) \in {1, 2}

\* bella is addressed while banks is current: the switch, with no request
C26_Witness ==
    /\ message_result # NoneObj
    /\ message_call.message = << "hi", " ", "bella" >>
    /\ message_call.current_persona = "banks"
    /\ current_persona = "bella"
    /\ message_result.returned.kind = "switched"

(* ============ EnhancedPersonalAssistant.process_command (C27) =========== *)
\* the calls of process_command in a run
MaxCommands == 3

\* the system message of the personal assistant
AssistantSystemMessage == Msg("system", "You are a helpful personal AI assistant")

\* conversation_history[-10:]
LastTen(history) ==
    IF Len(history) <= 10 THEN history
    ELSE SubSeq(history, Len(history) - 9, Len(history))

\* response["choices"][0]["message"]["content"], or the KeyError or
\* IndexError it raises
ResponseContent(response) ==
    IF "choices" \notin DOMAIN response THEN [ok |-> FALSE, error |-> "'choices'"]
    ELSE IF Len(response.choices) = 0
    THEN [ok |-> FALSE, error |-> "list index out of range"]
    ELSE IF "message" \notin DOMAIN response.choices[1]
    THEN [ok |-> FALSE, error |-> "'message'"]
    ELSE IF "content" \notin DOMAIN response.choices[1].message
    THEN [ok |-> FALSE, error |-> "'content'"]
    ELSE [ok |-> TRUE, value |-> response.choices[1].message.content]

\* process_command: the user entry is appended first, the assistant entry
\* after the response was read; the except clause only builds the string
Assistant_process_command(user_input, resp1, resp2) ==
    LET with_user == Append(conversation_history, Msg("user", user_input))
        msgs == << AssistantSystemMessage >> \o LastTen(with_user)
        chat == chat_completion(msgs, << >>, resp1, resp2)
        content == ResponseContent(chat.outcome.value)
    IN IF chat.outcome.kind # "return"
       THEN [conversation_history |-> with_user, failed |-> TRUE,
             returned |-> Text("failed", chat.outcome.exc), sent |-> msgs]
       ELSE IF ~content.ok
       THEN [conversation_history |-> with_user, failed |-> TRUE,
             returned |-> Text("failed", content.error), sent |-> msgs]
       ELSE [conversation_history |-> Append(with_user, Msg("assistant", content.value)),
             failed |-> FALSE,
             returned |-> Text("reply", content.value), sent |-> msgs]

UserInputs == {"draft an email", "take notes"}

\* one call of process_command, awaited to its end
ProcessCommand(user_input, resp1, resp2) ==
    /\ obj = "ready"
    /\ pc = "idle"
    /\ Len(conversation_history) + 2 <= 2 * MaxCommands
    /\ conversation_history' =
           Assistant_process_command(user_input, resp1, resp2).conversation_history
    /\ assistant_result' =
           [user_input |-> user_input,
            before |-> conversation_history,
            failed |-> Assistant_process_command(user_input, resp1, resp2).failed,
            returned |-> Assistant_process_command(user_input, resp1, resp2).returned]
    /\ UNCHANGED <<current_persona, message_call, message_result, ProviderObject,
                   Invocation, NotAssistant>>

CommandNext ==
    \/ Construct
    \/ \E user_input \in UserInputs, resp1 \in ChatResponses, resp2 \in ChatResponses :
          ProcessCommand(user_input, resp1, resp2)

CommandSpec == Init /\ [][CommandNext]_vars

\* user, assistant, user, assistant, ...: every user entry has its reply
Alternates(history) ==
    /\ Len(history) % 2 = 0
    /\ \A i \in 1..Len(history) :
          history[i].role = (IF i % 2 = 1 THEN "user" ELSE "assistant")

\* C27: conversation_history alternates user and assistant entries after
\* every call of process_command, and a failed call leaves the history as
\* it was before the call.
C27_HistoryAlternates ==
    /\ Alternates(conversation_history)
    /\ (assistant_result # NoneObj /\ assistant_result.failed) =>
          conversation_history = assistant_result.before

(* ============== VPSOrchestrator of hybrid_orchestrator.py =============== *)
\* the calls of process_claude_request that store a pattern in a run
MaxPatterns == 2

DesktopIds == {"d1", "d2"}

\* HybridResponse; the request_id is left out
HybridResponse(success, result, status_code, feedback) ==
    [success |-> success, result |-> result, status_code |-> status_code,
     automation_pattern |-> None, feedback |-> feedback]

\* analyze_request: keywords in the lower-cased request; a dict is the set of
\* its items
analyze_request(request) ==
    LET lower == LowerAll(request)
    IN IF Contains(lower, << "push" >>) /\ Contains(lower, << "snippet" >>)
       THEN [intent |-> "insert_code", action_type |-> "file_operation",
             execution_location |-> "desktop", requires_desktop |-> TRUE,
             parameters |-> {<< "operation", "insert" >>,
                             << "precision", IF Contains(lower, << "exact" >>)
                                             THEN "exact_section" ELSE "approximate" >>}]
       ELSE [intent |-> "unknown", action_type |-> "file_operation",
             execution_location |-> "desktop", requires_desktop |-> TRUE,
             parameters |-> {}]

\* create_execution_plan: a HybridRequest; analysis.get("command", "")
create_execution_plan(analysis) ==
    [action_type |-> analysis.action_type, execution_location |-> "desktop",
     command |-> "", parameters |-> analysis.parameters,
     requires_desktop |-> analysis.requires_desktop]

\* the first desktop of the dict whose status is "connected", 0 when none
FirstConnected ==
    IF \E i \in 1..Len(connected_desktops) : connected_desktops[i].status = "connected"
    THEN CHOOSE i \in 1..Len(connected_desktops) :
            /\ connected_desktops[i].status = "connected"
            /\ \A j \in 1..(i - 1) : connected_desktops[j].status # "connected"
    ELSE 0

\* route_to_desktop: the request is sent over the websocket of the first
\* connected desktop and the pending response is returned at once; send on
\* a connection that is closed raises ConnectionClosed
route_to_desktop(plan) ==
    IF FirstConnected = 0
    THEN [kind |-> "return", sent_over |-> None,
          response |-> HybridResponse(FALSE, "No desktop available", "02",
                                      "No desktop proxy available for execution")]
    ELSE IF desktop_connections[connected_desktops[FirstConnected].websocket].state # "open"
    THEN [kind |-> "raise", sent_over |-> connected_desktops[FirstConnected].websocket,
          response |-> NoneObj]
    ELSE [kind |-> "return", sent_over |-> connected_desktops[FirstConnected].websocket,
          response |-> HybridResponse(TRUE, "", "01",
                                      "Request sent to desktop for execution")]

\* execute_on_vps
execute_on_vps(plan) ==
    [kind |-> "return", sent_over |-> None,
     response |-> HybridResponse(TRUE, "processed_on vps", "00", "VPS execution completed")]

\* the pattern store_automation_pattern builds; its id is its place in the dict
AutomationPattern(plan, response) ==
    [request_type |-> plan.action_type, execution_location |-> plan.execution_location,
     command |-> plan.command, parameters |-> plan.parameters,
     success |-> response.success]

\* process_claude_request: analysis, plan, routing, and the pattern when
\* response.success
process_claude_request(request) ==
    LET plan == create_execution_plan(analyze_request(request))
        routed == IF plan.requires_desktop THEN route_to_desktop(plan)
                  ELSE execute_on_vps(plan)
    IN [routed |-> routed,
        pattern_storage |->
            IF routed.kind = "return" /\ routed.response.success
            THEN Append(pattern_storage, AutomationPattern(plan, routed.response))
            ELSE pattern_storage]

\* self.connected_desktops[desktop_id] = entry
PutDesktop(desktop_id, entry) ==
    IF \E i \in 1..Len(connected_desktops) : connected_desktops[i].desktop_id = desktop_id
    THEN [i \in 1..Len(connected_desktops) |->
            IF connected_desktops[i].desktop_id = desktop_id THEN entry
            ELSE connected_desktops[i]]
    ELSE Append(connected_desktops, entry)

\* self.connected_desktops.pop(desktop_id, None)
PopDesktop(desktop_id) ==
    SelectSeq(connected_desktops, LAMBDA e : e.desktop_id # desktop_id)

(* ------------------------------- inputs -------------------------------- *)
ClaudeRequests ==
    { << "push", " ", "snippet", " ", "exact" >>, << "push", " ", "snippet" >>,
      << "open", " ", "file" >> }
\* what a desktop sends: a registration, a response, or text that is not JSON
DesktopMessages ==
    {[type |-> "register", desktop_id |-> d] : d \in DesktopIds}
      \cup {[type |-> "response", desktop_id |-> None],
            [type |-> "not_json", desktop_id |-> None]}
\* how a connection ends: closed with code 1000 or 1001, where the iteration
\* over the websocket stops, or broken, where it raises ConnectionClosed
ConnectionEndings == {"ok", "error"}

NotHybrid == <<aivars, tiervars, orchvars, controlvars, voicevars, assistantvars,
               progressvars>>

(* ------------------------------- actions ------------------------------- *)
\* the server accepts a connection and starts handle_desktop_connection
AcceptConnection(websocket) ==
    /\ desktop_connections[websocket].state = "none"
    /\ desktop_connections' =
           [desktop_connections EXCEPT ![websocket] = [state |-> "open", desktop_id |-> None]]
    /\ UNCHANGED <<connected_desktops, pattern_storage, claude_result, NotHybrid>>

\* one turn of `async for message in websocket`; text that is not JSON makes
\* json.loads raise out of the handler, and the server closes the connection
DesktopMessage(websocket, data) ==
    /\ desktop_connections[websocket].state = "open"
    /\ desktop_connections' =
           [desktop_connections EXCEPT ![websocket] =
              CASE data.type = "register" -> [state |-> "open", desktop_id |-> data.desktop_id]
                [] data.type = "not_json" -> [@ EXCEPT !.state = "closed"]
                [] OTHER -> @]
    /\ connected_desktops' =
           IF data.type = "register"
           THEN PutDesktop(data.desktop_id,
                           [desktop_id |-> data.desktop_id, websocket |-> websocket,
                            status |-> "connected"])
           ELSE connected_desktops
    /\ UNCHANGED <<pattern_storage, claude_result, NotHybrid>>

\* the connection ends while the handler waits for a message
ConnectionEnds(websocket, ending) ==
    /\ desktop_connections[websocket].state = "open"
    /\ desktop_connections' =
           [desktop_connections EXCEPT ![websocket].state = "closed"]
    /\ connected_desktops' =
           IF ending = "error" /\ desktop_connections[websocket].desktop_id # None
           THEN PopDesktop(desktop_connections[websocket].desktop_id)
           ELSE connected_desktops
    /\ UNCHANGED <<pattern_storage, claude_result, NotHybrid>>

\* one call of process_claude_request
ProcessClaudeRequest(request) ==
    /\ Len(pattern_storage) < MaxPatterns
    /\ pattern_storage' = process_claude_request(request).pattern_storage
    /\ claude_result' =
           [request |-> request,
            kind |-> process_claude_request(request).routed.kind,
            response |-> process_claude_request(request).routed.response,
            sent_over |-> process_claude_request(request).routed.sent_over,
            desktops |-> connected_desktops,
            patterns_before |-> pattern_storage]
    /\ UNCHANGED <<desktop_connections, connected_desktops, NotHybrid>>

HybridInit == ProviderIdle /\ OthersIdle

HybridNext ==
    \/ \E websocket \in Websockets : AcceptConnection(websocket)
    \/ \E websocket \in Websockets, data \in DesktopMessages :
          DesktopMessage(websocket, data)
    \/ \E websocket \in Websockets, ending \in ConnectionEndings :
          ConnectionEnds(websocket, ending)
    \/ \E request \in ClaudeRequests : ProcessClaudeRequest(request)

HybridSpec == HybridInit /\ [][HybridNext]_vars

RegisteredOpen ==
    {desktop_connections[w].desktop_id :
        w \in {x \in Websockets : /\ desktop_connections[x].state = "open"
                                  /\ desktop_connections[x].desktop_id # None}}

\* C29: connected_desktops holds exactly the desktops that registered and
\* whose connection is open, so process_claude_request never sends over a
\* closed connection, and with no connected desktop it returns status 02.
C29_ConnectedDesktopsOpen ==
    /\ \A i \in 1..Len(connected_desktops) :
          desktop_connections[connected_desktops[i].websocket].state = "open"
    /\ {connected_desktops[i].desktop_id : i \in 1..Len(connected_desktops)}
          = RegisteredOpen
    /\ claude_result # NoneObj =>
          /\ claude_result.kind = "return"
          /\ claude_result.desktops = << >> =>
                /\ claude_result.response.status_code = "02"
                /\ ~claude_result.response.success

(* =================== ProgressStore of progress_store.py ================= *)
\* ANTHROPIC_API_KEY as ClaudeMCPConnector reads it, with its length
ApiKeys == {None, "sk-ant", "sk-ant-api03-key"}
KeyLen(api_key) ==
    CASE api_key = "sk-ant" -> 6
      [] api_key = "sk-ant-api03-key" -> 16
      [] OTHER -> 0

\* ClaudeMCPConnector.is_connected
is_connected(connector) ==
    connector.api_key # None /\ KeyLen(connector.api_key) > 10

\* what a backend call gave back: the string returned or the exception
\* raised, and whether the report was stored by the backend
Backend(kind, text, stored) == [kind |-> kind, text |-> text, stored |-> stored]

\* chat_with_claude_mcp: every failure is returned as a string
chat_with_claude_mcp(connector, net) ==
    IF ~is_connected(connector)
    THEN Backend("return", "Claude MCP not connected", FALSE)
    ELSE CASE net = "200" -> Backend("return", "Acknowledged.", TRUE)
           [] net = "200_no_content" -> Backend("return", "MCP Connection error", FALSE)
           [] net = "500" -> Backend("return", "Claude MCP API error", FALSE)
           [] OTHER -> Backend("return", "MCP Connection error", FALSE)

\* ClaudeCLIConnector.chat_with_claude: every failure is returned as a string
chat_with_claude(connector, run) ==
    IF connector.claude_cli_path = None
    THEN Backend("return", "Claude CLI not found", FALSE)
    ELSE CASE run = "exit_0" -> Backend("return", "Acknowledged.", TRUE)
           [] run = "exit_1" -> Backend("return", "Claude CLI error", FALSE)
           [] OTHER -> Backend("return", "Connection error", FALSE)

\* SDGhostMemoryClient.store_memory: the service is tried first, its failure
\* is swallowed; the local store is outside the try
store_memory(client, mem) ==
    CASE mem = "ghost_and_local" -> Backend("return", "memory_id", TRUE)
      [] mem = "local_only" -> Backend("return", "memory_id", TRUE)
      [] mem = "ghost_only" -> Backend("raise", "OperationalError", TRUE)
      [] OTHER -> Backend("raise", "OperationalError", FALSE)

\* one block of store_progress_report: the entry written for a backend
Entry(available, call) ==
    IF ~available THEN "unavailable"
    ELSE IF call.kind = "return" THEN "stored" ELSE "failed"

\* store_progress_report: the three blocks in a row, each with its own try
store_progress_report(net, run, mem) ==
    LET mcp_available == new_connector # NoneObj /\ is_connected(new_connector)
        cli_available == old_connector # NoneObj
        memory_available == memory_client # NoneObj
    IN [results |->
          [mcp_storage |-> Entry(mcp_available, chat_with_claude_mcp(new_connector, net)),
           cli_storage |-> Entry(cli_available, chat_with_claude(old_connector, run)),
           memory_storage |-> Entry(memory_available, store_memory(memory_client, mem))],
        attempted |->
          [mcp_storage |-> mcp_available, cli_storage |-> cli_available,
           memory_storage |-> memory_available],
        stored |->
          [mcp_storage |->
               mcp_available /\ chat_with_claude_mcp(new_connector, net).stored,
           cli_storage |-> cli_available /\ chat_with_claude(old_connector, run).stored,
           memory_storage |->
               memory_available /\ store_memory(memory_client, mem).stored]]

(* ------------------------------- inputs -------------------------------- *)
\* the answer of the Anthropic API, the end of the claude process, and what
\* the memory service and the local database do
McpAnswers == {"200", "200_no_content", "500", "ClientConnectorError"}
CliRuns == {"exit_0", "exit_1", "FileNotFoundError"}
MemoryStores == {"ghost_and_local", "local_only", "ghost_only", "none"}
CliPaths == {None, "/usr/local/bin/claude"}

NotProgress == <<aivars, tiervars, orchvars, controlvars, voicevars, assistantvars,
                 hybridvars>>

(* ------------------------------- actions ------------------------------- *)
\* ProgressStore(): _init_connectors, where each import or constructor may
\* fail and leave its connector None
NewProgressStore(mcp_ok, api_key, cli_ok, claude_cli_path, memory_ok) ==
    /\ progress_obj = "new"
    /\ progress_obj' = "ready"
    /\ new_connector' = IF mcp_ok THEN [api_key |-> api_key] ELSE NoneObj
    /\ old_connector' = IF cli_ok THEN [claude_cli_path |-> claude_cli_path] ELSE NoneObj
    /\ memory_client' = IF memory_ok THEN [local_db |-> TRUE] ELSE NoneObj
    /\ UNCHANGED <<progress_result, NotProgress>>

\* one call of store_progress_report, awaited to its end
StoreProgressReport(net, run, mem) ==
    /\ progress_obj = "ready"
    /\ progress_result' =
           [call |-> [net |-> net, run |-> run, mem |-> mem],
            kind |-> "return",
            results |-> store_progress_report(net, run, mem).results,
            attempted |-> store_progress_report(net, run, mem).attempted,
            stored |-> store_progress_report(net, run, mem).stored]
    /\ UNCHANGED <<progress_obj, new_connector, old_connector, memory_client,
                   NotProgress>>

ProgressInit == ProviderIdle /\ OthersIdle

ProgressNext ==
    \/ \E mcp_ok \in BOOLEAN, api_key \in ApiKeys, cli_ok \in BOOLEAN,
          claude_cli_path \in CliPaths, memory_ok \in BOOLEAN :
          NewProgressStore(mcp_ok, api_key, cli_ok, claude_cli_path, memory_ok)
    \/ \E net \in McpAnswers, run \in CliRuns, mem \in MemoryStores :
          StoreProgressReport(net, run, mem)

ProgressSpec == ProgressInit /\ [][ProgressNext]_vars

StorageBackends == {"mcp_storage", "cli_storage", "memory_storage"}

\* C30: store_progress_report returns, with an entry for each of the three
\* backends; every available backend was attempted whatever the others
\* did; and an entry says stored only if that backend stored the report.
C30_ResultsFaithful ==
    progress_result # NoneObj =>
        /\ progress_result.kind = "return"
        /\ DOMAIN progress_result.results = StorageBackends
        /\ progress_result.attempted.mcp_storage =
              (new_connector # NoneObj /\ is_connected(new_connector))
        /\ progress_result.attempted.cli_storage = (old_connector # NoneObj)
        /\ progress_result.attempted.memory_storage = (memory_client # NoneObj)
        /\ \A b \in StorageBackends :
              progress_result.results[b] = "stored" => progress_result.stored[b]
====
